---------------------------- MODULE Spec2Model ----------------------------
(***************************************************************************)
(* A model of debug-proxy: the transaction recorder (src/src/recorder.rs), *)
(* the shared configuration (src/src/config.rs) and the request handler    *)
(* of the proxy with its admin router (src/src/proxy.rs).                  *)
(*                                                                         *)
(* Strings that the code inspects (paths) are sequences of characters, so  *)
(* that starts_with is computed.  An Option is a sequence of length 0 or 1.*)
(***************************************************************************)
EXTENDS Integers, Sequences, FiniteSets, TLC

(***************************************************************************)
(* Bounds of the model.                                                    *)
(***************************************************************************)
\* largest capacity a recorder is constructed with
MaxCap == 2
\* number of record_request calls the recorder harness makes
MaxRecords == 4
\* number of requests the proxy receives, one handler task each
NumTasks == 3
\* number of requests of the admin surface taken on their own
NumAdminTasks == 1
\* number of tasks that take the lock of the shared configuration
NumLockTasks == 2
\* number of HttpTransaction values the largest allocation holds: stands for
\* isize::MAX / size_of::<HttpTransaction>()
ReserveLimit == 8

\* number of requests taken while the config is being updated
NumReconfigTasks == 2
\* number of admin requests that arrive beside one proxied request
NumGateTasks == 1
\* number of handler tasks whose lock operations are followed
NumGuardTasks == 2
\* largest body the binary heuristic is applied to, in bytes
MaxBodyLen == 13

\* number of child processes the supervisor spawns
MaxSpawns == 2
\* number of restart() calls the monitor loop of main makes
MaxRestarts == 2

VARIABLES
    \* RequestRecorder (recorder.rs:68-71)
    transactions,     \* the VecDeque behind the RwLock, oldest first
    max_size,         \* the max_size field, set by new() and never written again
    next_id,          \* the ids handed out so far: Uuid::new_v4 is modelled as fresh
    \* history of the calls made on the recorder by the recorder harness
    inserted,         \* the ids record_request returned, in call order
    disturbed,        \* TRUE once clear or resize has been called
    last_call,        \* the most recent call: its name and its id argument
    \* SharedConfig (config.rs:30-32)
    config,           \* the ProxyConfig behind the RwLock
    \* one handler task per received request (proxy.rs:70-227)
    pc,               \* where each task is in handle_request
    req,              \* the request a task received
    request_id,       \* Option: the id record_request returned to the task
    upstream_timeout, \* Option: the timeout the task captured at record time
    truncate_at,      \* Option: truncate_body_at as read before record_response
    upstream_req,     \* Option: the request the task dispatched to the upstream
    upstream_resp,    \* Option: the response head (and body) the upstream sent
    body_mode,        \* how the upstream delivers the response body
    start_time,       \* Option: the awaits the task has completed since it took
                      \* start_time = Instant::now(), oldest first
    duration,         \* Option: start_time.elapsed() as the task read it: the
                      \* awaits the measured interval spans
    expired,          \* TRUE when upstream_timeout has elapsed since dispatch and
                      \* the task waits on the upstream still, or has timed out
    reply,            \* Option: the response the task returned to its client
    received,         \* the tasks whose request body is buffered and whose request
                      \* is not recorded yet, in the order the bodies completed
    \* the RwLock of SharedConfig (config.rs:31) and the tasks that take it
    cfg_lock,         \* the lock: its writer (an Option) and its set of readers
    lock_pc,          \* where each task is in its critical section
    lock_op,          \* Option: what the task does with the config
    seen,             \* the fields a reading task has read under its guard
    committed,        \* the configs as they were each time the write lock was released
    \* the two RwLocks, SharedConfig.inner (config.rs:31) and
    \* RequestRecorder.transactions (recorder.rs:69), as the handlers take them
    rw_locks,         \* each lock: its writer (an Option) and its set of readers
    handler_at,       \* the lock operations and awaits of each handler task, and
                      \* the one the task is at
    \* ProcessManager (process.rs:8-11), the processes it spawned, and main()
    child,            \* the Option<Child> behind the Mutex: the pid of the handle
    child_mutex,      \* Option: the thread that holds the Mutex
    procs,            \* the state of each process a spawn can create
    sup_pc,           \* where each thread is in a call on the ProcessManager
    sup_ret,          \* what the last call of each thread returned, and the
                      \* handle that was stored when the call was made
    signals_sent,     \* the kill(pid, sig) calls made, in order
    monitor,          \* where main() is, and what its loop has seen and done
    exit_code,        \* Option: the code the proxy process exited with
    upstream_addr     \* Option: the upstream argument main() was given and the
                      \* Result parse_upstream_target returned for it

vars == << transactions, max_size, next_id, inserted, disturbed, last_call,
           config, pc, req, request_id, upstream_timeout, truncate_at,
           upstream_req, upstream_resp, body_mode, expired, reply, received,
           cfg_lock, lock_pc, lock_op, seen, committed,
           child, child_mutex, procs, sup_pc, sup_ret, signals_sent, monitor,
           exit_code, upstream_addr, start_time, duration, rw_locks, handler_at >>

argVars == << upstream_addr >>

timeVars == << start_time, duration >>

guardVars == << rw_locks, handler_at >>

procVars == << child, child_mutex, procs, sup_pc, sup_ret, signals_sent, monitor,
               exit_code >>

lockVars == << cfg_lock, lock_pc, lock_op, seen, committed >>

recorderVars == << transactions, max_size, next_id >>
harnessVars == << inserted, disturbed, last_call >>
taskVars == << pc, req, request_id, upstream_timeout, truncate_at,
               upstream_req, upstream_resp, body_mode, expired, reply >>

(***************************************************************************)
(* Option, sequences and strings.                                          *)
(***************************************************************************)
None == << >>
Some(x) == << x >>
IsSome(o) == Len(o) = 1
IsNone(o) == Len(o) = 0
Unwrap(o) == o[1]

Min(a, b) == IF a <= b THEN a ELSE b

Range(s) == { s[i] : i \in 1..Len(s) }

\* str::starts_with
StartsWith(s, p) == Len(s) >= Len(p) /\ SubSeq(s, 1, Len(p)) = p

\* the last k elements of s
LastK(s, k) == SubSeq(s, Len(s) - k + 1, Len(s))

\* iter_mut().find(|t| t.request.id == id): the index of the first transaction
\* with that id, 0 if none
FindFirst(s, id) ==
    IF \E i \in 1..Len(s) : s[i].request.id = id
    THEN CHOOSE i \in 1..Len(s) :
            /\ s[i].request.id = id
            /\ \A j \in 1..(i - 1) : s[j].request.id # id
    ELSE 0

(***************************************************************************)
(* The paths and tokens the model's requests use.                          *)
(***************************************************************************)
AdminPrefix == << "/", "_", "p", "r", "o", "x", "y" >>
AssetsPrefix == AdminPrefix \o << "/", "a", "s", "s", "e", "t", "s", "/" >>
PathAdminRoot == AdminPrefix
PathAdminSlash == AdminPrefix \o << "/" >>
PathApiConfig == AdminPrefix \o << "/", "a", "p", "i", "/", "c", "o", "n", "f", "i", "g" >>
PathApiLogs == AdminPrefix \o << "/", "a", "p", "i", "/", "l", "o", "g", "s" >>
PathAsset == AssetsPrefix \o << "a", ".", "j", "s" >>
PathAssetMissing == AssetsPrefix \o << "x" >>
PathAdminOther == AdminPrefix \o << "x" >>
PathTest == << "/", "t", "e", "s", "t" >>
PathSlow == << "/", "s", "l", "o", "w" >>
\* paths that hold the admin prefix cut short, or not at their start
PathNearPrefix == << "/", "_", "p", "r", "o", "x" >>
PathInnerPrefix == << "/", "a", "p", "i" >> \o AdminPrefix
PathRoot == << "/" >>

\* the access token the configuration is constructed with, and another string
AccessToken == "tok"
OtherToken == "bad"

(***************************************************************************)
(* Body analysis (recorder.rs:188-263).  A body is a sequence of bytes, a  *)
(* header value a sequence of characters, in which OpaqueChar stands for a *)
(* byte that is no visible ASCII character.                                *)
(***************************************************************************)
OpaqueChar == "\\xE9"

\* the index of the first element of s equal to c, 0 if none
IndexOf(s, c) ==
    IF \E i \in 1..Len(s) : s[i] = c
    THEN CHOOSE i \in 1..Len(s) : s[i] = c /\ \A j \in 1..(i - 1) : s[j] # c
    ELSE 0

\* str::ends_with
EndsWith(s, p) == Len(s) >= Len(p) /\ SubSeq(s, Len(s) - Len(p) + 1, Len(s)) = p

\* HeaderMap::get on the (name, value) pairs of a map: the first value of the name
HeaderGet(headers, name) ==
    LET i == CHOOSE k \in 0..Len(headers) :
                 /\ k # 0 => headers[k][1] = name
                 /\ \A j \in 1..(IF k = 0 THEN Len(headers) ELSE k - 1) :
                        headers[j][1] # name
    IN  IF i = 0 THEN None ELSE Some(headers[i][2])

\* HeaderValue::to_str().ok(): the value when all its bytes are visible ASCII
ToStr(value) ==
    IF \E i \in 1..Len(value) : value[i] = OpaqueChar THEN None ELSE Some(value)

\* a type or subtype of a media type: not empty, no separator inside
IsToken(s) ==
    /\ Len(s) > 0
    /\ \A i \in 1..Len(s) : s[i] \notin { "/", ";", " ", ",", "=", OpaqueChar }

\* str::parse::<Mime>: type "/" subtype, an optional "+" suffix, optional
\* parameters after ";".  subtype is the part before the "+", as
\* Mime::subtype() returns it.  None stands for Err.
ParseMime(s) ==
    LET semi == IndexOf(s, ";")
        end == IF semi = 0 THEN Len(s) ELSE semi - 1
        slash == IndexOf(s, "/")
        top == SubSeq(s, 1, slash - 1)
        rest == SubSeq(s, slash + 1, end)
        plus == IndexOf(rest, "+")
        sub == IF plus = 0 THEN rest ELSE SubSeq(rest, 1, plus - 1)
        suffix == IF plus = 0 THEN << >> ELSE SubSeq(rest, plus + 1, Len(rest))
    IN  IF slash = 0 \/ slash > end THEN None
        ELSE IF ~IsToken(top) \/ ~IsToken(sub) THEN None
        ELSE IF plus # 0 /\ ~IsToken(suffix) THEN None
        ELSE Some([ type |-> top, subtype |-> sub, suffix |-> suffix ])

Chars_text == << "t", "e", "x", "t" >>
Chars_application == << "a", "p", "p", "l", "i", "c", "a", "t", "i", "o", "n" >>
Chars_json == << "j", "s", "o", "n" >>
Chars_javascript == << "j", "a", "v", "a", "s", "c", "r", "i", "p", "t" >>
Chars_xml == << "x", "m", "l" >>

\* the match of is_binary_content on (type, subtype): TRUE when an arm
\* returns false, that is when the content type decides "not binary"
MimeIsText(mime) ==
    \/ mime.type = Chars_text
    \/ /\ mime.type = Chars_application
       /\ \/ mime.subtype = Chars_json
          \/ mime.subtype = Chars_javascript
          \/ mime.subtype = Chars_xml
          \/ EndsWith(mime.subtype, << "+" >> \o Chars_json)
          \/ EndsWith(mime.subtype, << "+" >> \o Chars_xml)

\* how many elements of s satisfy the test of the heuristic
NullCount(data) == Cardinality({ i \in 1..Len(data) : data[i] = 0 })
NonPrintableCount(data) ==
    Cardinality({ i \in 1..Len(data) : data[i] < 32 /\ data[i] \notin { 9, 10, 13 } })

\* is_binary_content deciding on the null bytes before the content type
is_binary_nulls_first(data, content_type) ==
    IF Len(data) = 0 THEN FALSE
    ELSE IF NullCount(data) > 0 THEN TRUE
    ELSE IF /\ IsSome(content_type)
            /\ IsSome(ParseMime(Unwrap(content_type)))
            /\ MimeIsText(Unwrap(ParseMime(Unwrap(content_type))))
    THEN FALSE
    ELSE (NonPrintableCount(data) * 100) \div Len(data) > 30

\* RequestRecorder::is_binary_content
is_binary_content(data, content_type) ==
    IF Len(data) = 0 THEN FALSE
    ELSE IF /\ IsSome(content_type)
            /\ IsSome(ParseMime(Unwrap(content_type)))
            /\ MimeIsText(Unwrap(ParseMime(Unwrap(content_type))))
    THEN FALSE
    ELSE IF NullCount(data) > 0 THEN TRUE
    ELSE (NonPrintableCount(data) * 100) \div Len(data) > 30

\* std::str::from_utf8(bytes).is_ok()
RECURSIVE IsUtf8(_)
IsUtf8(b) ==
    LET Cont(i) == i <= Len(b) /\ b[i] >= 128 /\ b[i] <= 191
        In(i, lo, hi) == i <= Len(b) /\ b[i] >= lo /\ b[i] <= hi
        Rest(n) == IsUtf8(SubSeq(b, n + 1, Len(b)))
    IN  IF Len(b) = 0 THEN TRUE
        ELSE IF b[1] < 128 THEN Rest(1)
        ELSE IF b[1] >= 194 /\ b[1] <= 223 THEN Cont(2) /\ Rest(2)
        ELSE IF b[1] = 224 THEN In(2, 160, 191) /\ Cont(3) /\ Rest(3)
        ELSE IF b[1] = 237 THEN In(2, 128, 159) /\ Cont(3) /\ Rest(3)
        ELSE IF b[1] >= 225 /\ b[1] <= 239 THEN Cont(2) /\ Cont(3) /\ Rest(3)
        ELSE IF b[1] = 240 THEN In(2, 144, 191) /\ Cont(3) /\ Cont(4) /\ Rest(4)
        ELSE IF b[1] = 244 THEN In(2, 128, 143) /\ Cont(3) /\ Cont(4) /\ Rest(4)
        ELSE IF b[1] >= 241 /\ b[1] <= 243
        THEN Cont(2) /\ Cont(3) /\ Cont(4) /\ Rest(4)
        ELSE FALSE

\* analyze_body taking a body of exactly truncate_at bytes for a truncated one
analyze_body_inclusive(body, headers, limit) ==
    LET size == Len(body)
        value == HeaderGet(headers, "content-type")
        content_type == IF IsSome(value) THEN ToStr(Unwrap(value)) ELSE None
        is_binary == is_binary_content(body, content_type)
        truncated == size >= limit
        preview_bytes == IF truncated THEN SubSeq(body, 1, Min(limit, size))
                         ELSE body
        preview ==
            IF is_binary
            THEN IF size = 0 THEN << "text", << >> >> ELSE << "binary data", size >>
            ELSE IF IsUtf8(preview_bytes) THEN << "text", preview_bytes >>
            ELSE << "invalid UTF-8", size >>
    IN  [ content_type |-> content_type,
          size |-> size,
          preview |-> preview,
          is_binary |-> is_binary,
          truncated |-> truncated ]

\* RequestRecorder::analyze_body.  The preview is << "text", bytes >> for a
\* String made of those bytes, << "binary data", n >> for
\* "<binary data: n bytes>" and << "invalid UTF-8", n >> for
\* "<invalid UTF-8: n bytes>".
analyze_body(body, headers, limit) ==
    LET size == Len(body)
        value == HeaderGet(headers, "content-type")
        content_type == IF IsSome(value) THEN ToStr(Unwrap(value)) ELSE None
        is_binary == is_binary_content(body, content_type)
        truncated == size > limit
        preview_bytes == IF truncated THEN SubSeq(body, 1, Min(limit, size))
                         ELSE body
        preview ==
            IF is_binary
            THEN IF size = 0 THEN << "text", << >> >> ELSE << "binary data", size >>
            ELSE IF IsUtf8(preview_bytes) THEN << "text", preview_bytes >>
            ELSE << "invalid UTF-8", size >>
    IN  [ content_type |-> content_type,
          size |-> size,
          preview |-> preview,
          is_binary |-> is_binary,
          truncated |-> truncated ]

\* the number of decimal digits format!("{}", n) writes for a usize
RECURSIVE Digits(_)
Digits(n) == IF n < 10 THEN 1 ELSE 1 + Digits(n \div 10)

\* String::len of a preview: the bytes of the text, or of the placeholder
\* "<binary data: n bytes>" or "<invalid UTF-8: n bytes>"
PreviewLen(preview) ==
    IF preview[1] = "text" THEN Len(preview[2])
    ELSE IF preview[1] = "binary data" THEN 14 + Digits(preview[2]) + 7
    ELSE 16 + Digits(preview[2]) + 7

\* the headers of a record: every (name, value) with the value as a string,
\* "<invalid>" when to_str fails
HeaderStrings(headers) ==
    [ i \in 1..Len(headers) |->
        << headers[i][1],
           IF IsSome(ToStr(headers[i][2])) THEN headers[i][2]
           ELSE << "<", "i", "n", "v", "a", "l", "i", "d", ">" >> >> ]

(***************************************************************************)
(* RequestRecorder (recorder.rs).  A transaction is                        *)
(*   [request |-> RequestRecord, response |-> Option, error |-> Option].   *)
(***************************************************************************)
\* RequestRecord as built by record_request from a RequestInfo; id is fresh
RequestRecord(id, info) ==
    [ id |-> id,
      method |-> info.method,
      path |-> info.path,
      version |-> info.version,
      headers |-> HeaderStrings(info.headers),
      body |-> analyze_body(info.body, info.headers, info.truncate_at),
      client_addr |-> info.client_addr ]

\* HttpTransaction as record_request creates it
NewTransaction(id, info) ==
    [ request |-> RequestRecord(id, info), response |-> None, error |-> None ]

\* VecDeque::pop_front: nothing to remove from an empty deque
pop_front(txns) == IF Len(txns) = 0 THEN txns ELSE Tail(txns)

\* record_request evicting only when the ring is over its capacity
record_request_late(txns, max, id, info) ==
    LET kept == IF Len(txns) > max THEN pop_front(txns) ELSE txns
    IN  Append(kept, NewTransaction(id, info))

\* record_request pushing the new transaction at the head of the ring
record_request_front(txns, max, id, info) ==
    LET kept == IF Len(txns) >= max THEN pop_front(txns) ELSE txns
    IN  << NewTransaction(id, info) >> \o kept

\* the ring after record_request: evict the head when len >= max_size, push back
record_request(txns, max, id, info) ==
    LET kept == IF Len(txns) >= max THEN pop_front(txns) ELSE txns
    IN  Append(kept, NewTransaction(id, info))

\* ResponseRecord as built by record_response from a ResponseInfo
ResponseRecord(info) ==
    [ id |-> info.request_id,
      status |-> info.status,
      version |-> info.version,
      headers |-> HeaderStrings(info.headers),
      body |-> analyze_body(info.body, info.headers, info.truncate_at),
      duration_ms |-> info.duration_ms ]

\* record_response falling back to the newest transaction when the id is not found
record_response_newest(txns, info) ==
    LET i == FindFirst(txns, info.request_id)
    IN  IF Len(txns) = 0 THEN txns
        ELSE IF i = 0
        THEN [ txns EXCEPT ![Len(txns)].response = Some(ResponseRecord(info)) ]
        ELSE [ txns EXCEPT ![i].response = Some(ResponseRecord(info)) ]

\* the ring after record_response: the first transaction with that id, if any
record_response(txns, info) ==
    LET i == FindFirst(txns, info.request_id)
    IN  IF i = 0 THEN txns
        ELSE [ txns EXCEPT ![i].response = Some(ResponseRecord(info)) ]

\* record_error falling back to the newest transaction when the id is not found
record_error_newest(txns, id, error) ==
    LET i == FindFirst(txns, id)
    IN  IF Len(txns) = 0 THEN txns
        ELSE IF i = 0 THEN [ txns EXCEPT ![Len(txns)].error = Some(error) ]
        ELSE [ txns EXCEPT ![i].error = Some(error) ]

\* the ring after record_error
record_error(txns, id, error) ==
    LET i == FindFirst(txns, id)
    IN  IF i = 0 THEN txns
        ELSE [ txns EXCEPT ![i].error = Some(error) ]

\* get_transactions: a copy of the ring, oldest first
get_transactions(txns) == txns

\* a clear that removes the oldest transaction only
clear_oldest(txns) == pop_front(txns)

\* the ring after clear
clear(txns) == << >>

\* a resize that cuts the ring at its tail and keeps the oldest entries
resize_keep_oldest(txns, new_size) == SubSeq(txns, 1, Min(Len(txns), new_size))

\* the ring after resize: pop the head while len > new_size; max_size is not written
RECURSIVE resize(_, _)
resize(txns, new_size) ==
    IF Len(txns) > new_size THEN resize(pop_front(txns), new_size) ELSE txns

\* VecDeque::reserve(additional) on a deque of length len: the capacity asked
\* for is len + additional, and the call panics ("capacity overflow") when no
\* allocation can hold it
reserve_panics(len, additional) == len + additional > ReserveLimit

\* the request ids of a sequence of transactions
Ids(txns) == [ i \in 1..Len(txns) |-> txns[i].request.id ]


(***************************************************************************)
(* ProxyConfig, SharedConfig and ConfigUpdate (config.rs).                 *)
(***************************************************************************)
\* std::time::Duration::from_millis and Duration::as_millis
DurationFromMillis(ms) == [ secs |-> ms \div 1000, nanos |-> (ms % 1000) * 1000000 ]
AsMillis(d) == d.secs * 1000 + d.nanos \div 1000000

\* the defaults of the command line (main.rs) and of ProxyConfig::default
DefaultUpstreamTimeoutMs == 500
DefaultClientTimeoutMs == 30000
DefaultMaxBodySize == 1048576
DefaultTruncateBody == 1024

\* the ProxyConfig main() builds for --max-history n
StartupConfig(n) ==
    [ client_timeout |-> DurationFromMillis(DefaultClientTimeoutMs),
      upstream_timeout |-> DurationFromMillis(DefaultUpstreamTimeoutMs),
      max_history_size |-> n,
      max_body_size |-> DefaultMaxBodySize,
      truncate_body_at |-> DefaultTruncateBody,
      access_token |-> AccessToken ]

\* the fields of ConfigUpdate
UpdateFields == { "client_timeout_ms", "upstream_timeout_ms", "max_history_size",
                  "max_body_size", "truncate_body_at" }

\* apply_to rebuilding the config from ProxyConfig::default(), whose token is new
apply_to_default(update, cfg) ==
    [ client_timeout |->
          IF IsSome(update.client_timeout_ms)
          THEN DurationFromMillis(Unwrap(update.client_timeout_ms))
          ELSE cfg.client_timeout,
      upstream_timeout |->
          IF IsSome(update.upstream_timeout_ms)
          THEN DurationFromMillis(Unwrap(update.upstream_timeout_ms))
          ELSE cfg.upstream_timeout,
      max_history_size |->
          IF IsSome(update.max_history_size)
          THEN Unwrap(update.max_history_size)
          ELSE cfg.max_history_size,
      max_body_size |->
          IF IsSome(update.max_body_size)
          THEN Unwrap(update.max_body_size)
          ELSE cfg.max_body_size,
      truncate_body_at |->
          IF IsSome(update.truncate_body_at)
          THEN Unwrap(update.truncate_body_at)
          ELSE cfg.truncate_body_at,
      access_token |-> OtherToken ]

\* apply_to building a new config in which an absent field gets its default
apply_to_reset(update, cfg) ==
    [ client_timeout |->
          IF IsSome(update.client_timeout_ms)
          THEN DurationFromMillis(Unwrap(update.client_timeout_ms))
          ELSE DurationFromMillis(DefaultClientTimeoutMs),
      upstream_timeout |->
          IF IsSome(update.upstream_timeout_ms)
          THEN DurationFromMillis(Unwrap(update.upstream_timeout_ms))
          ELSE DurationFromMillis(DefaultUpstreamTimeoutMs),
      max_history_size |->
          IF IsSome(update.max_history_size)
          THEN Unwrap(update.max_history_size)
          ELSE cfg.max_history_size,
      max_body_size |->
          IF IsSome(update.max_body_size)
          THEN Unwrap(update.max_body_size)
          ELSE DefaultMaxBodySize,
      truncate_body_at |->
          IF IsSome(update.truncate_body_at)
          THEN Unwrap(update.truncate_body_at)
          ELSE DefaultTruncateBody,
      access_token |-> cfg.access_token ]

\* ConfigUpdate::apply_to: each field that is Some overwrites its config field
apply_to(update, cfg) ==
    [ client_timeout |->
          IF IsSome(update.client_timeout_ms)
          THEN DurationFromMillis(Unwrap(update.client_timeout_ms))
          ELSE cfg.client_timeout,
      upstream_timeout |->
          IF IsSome(update.upstream_timeout_ms)
          THEN DurationFromMillis(Unwrap(update.upstream_timeout_ms))
          ELSE cfg.upstream_timeout,
      max_history_size |->
          IF IsSome(update.max_history_size)
          THEN Unwrap(update.max_history_size)
          ELSE cfg.max_history_size,
      max_body_size |->
          IF IsSome(update.max_body_size)
          THEN Unwrap(update.max_body_size)
          ELSE cfg.max_body_size,
      truncate_body_at |->
          IF IsSome(update.truncate_body_at)
          THEN Unwrap(update.truncate_body_at)
          ELSE cfg.truncate_body_at,
      access_token |-> cfg.access_token ]

\* the k-th statement of apply_to, in the order of the code
apply_field(update, cfg, k) ==
    CASE k = 1 ->
           IF IsSome(update.client_timeout_ms)
           THEN [ cfg EXCEPT !.client_timeout =
                                 DurationFromMillis(Unwrap(update.client_timeout_ms)) ]
           ELSE cfg
      [] k = 2 ->
           IF IsSome(update.upstream_timeout_ms)
           THEN [ cfg EXCEPT !.upstream_timeout =
                                 DurationFromMillis(Unwrap(update.upstream_timeout_ms)) ]
           ELSE cfg
      [] k = 3 ->
           IF IsSome(update.max_history_size)
           THEN [ cfg EXCEPT !.max_history_size = Unwrap(update.max_history_size) ]
           ELSE cfg
      [] k = 4 ->
           IF IsSome(update.max_body_size)
           THEN [ cfg EXCEPT !.max_body_size = Unwrap(update.max_body_size) ]
           ELSE cfg
      [] k = 5 ->
           IF IsSome(update.truncate_body_at)
           THEN [ cfg EXCEPT !.truncate_body_at = Unwrap(update.truncate_body_at) ]
           ELSE cfg

\* parking_lot::RwLock: write() is granted when no guard is held at all,
\* read() when no write guard is held
write_lock_unfenced(lock) == IsNone(lock.writer)
write_lock_free(lock) == IsNone(lock.writer) /\ lock.readers = {}
read_lock_free(lock) == IsNone(lock.writer)

\* the config fields a reader reads under one read guard, in the order of the
\* code: serve_config (proxy.rs:303-310), handle_request (proxy.rs:114-126)
ReadOrder(kind) ==
    IF kind = "serve_config"
    THEN << "client_timeout", "upstream_timeout", "max_history_size",
            "max_body_size", "truncate_body_at" >>
    ELSE << "truncate_body_at", "upstream_timeout" >>

\* SharedConfig::get_access_token
get_access_token(cfg) == cfg.access_token

(***************************************************************************)
(* The initial state: main() builds the configuration and the recorder     *)
(* from the same --max-history, no request has arrived.                    *)
(***************************************************************************)
Tasks == 1..NumTasks

\* the threads that call the ProcessManager: the main thread (startup and the
\* monitor loop) and the worker that runs the signal task
Threads == { "main", "signal" }

\* the processes Command::spawn can create, by pid
Pids == 1..MaxSpawns

\* the locks of the request path: the config lock and the recorder's ring lock
LockNames == { "config", "ring" }

\* a handler task that has not received its request
NotStarted == [ program |-> << >>, k |-> 0 ]

\* a thread that is in no call, and the return value of no call
IdleThread ==
    [ op |-> "idle", plan |-> << >>, at |-> "idle", taken |-> None,
      prior |-> None, done |-> << >> ]
NoReturn == [ op |-> "none", result |-> "none", pid |-> None, prior |-> None ]

Init ==
    /\ \E n \in 1..MaxCap :
          /\ max_size = n
          /\ config = StartupConfig(n)
    /\ transactions = << >>
    /\ next_id = 0
    /\ inserted = << >>
    /\ disturbed = FALSE
    /\ last_call = [ op |-> "new", id |-> 0 ]
    /\ pc = [ t \in Tasks |-> "idle" ]
    /\ req = [ t \in Tasks |-> None ]
    /\ request_id = [ t \in Tasks |-> None ]
    /\ upstream_timeout = [ t \in Tasks |-> None ]
    /\ truncate_at = [ t \in Tasks |-> None ]
    /\ upstream_req = [ t \in Tasks |-> None ]
    /\ upstream_resp = [ t \in Tasks |-> None ]
    /\ body_mode = [ t \in Tasks |-> "none" ]
    /\ expired = [ t \in Tasks |-> FALSE ]
    /\ reply = [ t \in Tasks |-> None ]
    /\ received = << >>
    /\ cfg_lock = [ writer |-> None, readers |-> {} ]
    /\ lock_pc = [ t \in Tasks |-> [ at |-> "idle", k |-> 0 ] ]
    /\ lock_op = [ t \in Tasks |-> None ]
    /\ seen = [ t \in Tasks |-> << >> ]
    /\ committed = << config >>
    /\ child = None
    /\ child_mutex = None
    /\ procs = [ p \in Pids |-> "unborn" ]
    /\ sup_pc = [ th \in Threads |-> IdleThread ]
    /\ sup_ret = [ th \in Threads |-> NoReturn ]
    /\ signals_sent = << >>
    /\ monitor = [ at |-> "startup", observed |-> 0, restarts |-> 0,
                   signalled |-> FALSE, server_finished |-> FALSE ]
    /\ exit_code = None
    /\ upstream_addr = None
    /\ start_time = [ t \in Tasks |-> None ]
    /\ duration = [ t \in Tasks |-> None ]
    /\ rw_locks = [ l \in LockNames |-> [ writer |-> None, readers |-> {} ] ]
    /\ handler_at = [ t \in Tasks |-> NotStarted ]

(***************************************************************************)
(* http::HeaderMap: a sequence of entries [name, values], one per distinct *)
(* name in first-insertion order, each with its values in insertion order. *)
(***************************************************************************)
\* HeaderMap::append / Builder::header: add a value under a name
HeaderAppend(map, name, value) ==
    IF \E i \in 1..Len(map) : map[i].name = name
    THEN [ i \in 1..Len(map) |->
             IF map[i].name = name
             THEN [ map[i] EXCEPT !.values = Append(@, value) ]
             ELSE map[i] ]
    ELSE Append(map, [ name |-> name, values |-> << value >> ])

\* HeaderMap::iter: every (name, value) pair, the name repeated for each value
RECURSIVE HeaderIter(_)
HeaderIter(map) ==
    IF Len(map) = 0 THEN << >>
    ELSE [ k \in 1..Len(map[1].values) |-> << map[1].name, map[1].values[k] >> ]
         \o HeaderIter(Tail(map))

\* HeaderMap::into_iter: (Option<name>, value); the name is Some only for the
\* first value of an entry and None for the further values of the same name
RECURSIVE HeaderIntoIter(_)
HeaderIntoIter(map) ==
    IF Len(map) = 0 THEN << >>
    ELSE [ k \in 1..Len(map[1].values) |->
             << IF k = 1 THEN Some(map[1].name) ELSE None, map[1].values[k] >> ]
         \o HeaderIntoIter(Tail(map))

\* the fold of handle_request over into_iter (proxy.rs:141-149, 194-203):
\* an item is added to the builder when its name is Some and skipped otherwise
RECURSIVE FoldHeaders(_, _)
FoldHeaders(builder, items) ==
    IF Len(items) = 0 THEN builder
    ELSE FoldHeaders(
             IF IsSome(items[1][1])
             THEN HeaderAppend(builder, Unwrap(items[1][1]), items[1][2])
             ELSE builder,
             Tail(items))

ForwardHeaders(map) == FoldHeaders(<< >>, HeaderIntoIter(map))

\* how often x occurs in the sequence s
Count(x, s) == Cardinality({ i \in 1..Len(s) : s[i] = x })

\* two header maps hold the same (name, value) pairs as multisets
SameHeaderMultiset(a, b) ==
    \A x \in Range(HeaderIter(a)) \cup Range(HeaderIter(b)) :
        Count(x, HeaderIter(a)) = Count(x, HeaderIter(b))

(***************************************************************************)
(* Requests, upstream responses and replies.  A body is a tagged pair:     *)
(* <<"bytes", b>>, <<"text", s>> or <<"json", v>>; b is a sequence of      *)
(* bytes, and so is a header value.  A query string is the                 *)
(* sequence of (key, value) pairs url::form_urlencoded::parse yields.      *)
(***************************************************************************)
NoHeaders == << >>
TextPlain == Chars_text \o << "/", "p", "l", "a", "i", "n" >>
TextHtml == Chars_text \o << "/", "h", "t", "m", "l" >>
PlainHeaders == << [ name |-> "content-type", values |-> << TextPlain >> ] >>
CookieHeaders ==
    << [ name |-> "set-cookie",
         values |-> << << "a", "=", "1" >>, << "b", "=", "2" >> >> ],
       [ name |-> "content-type", values |-> << TextPlain >> ] >>

\* what serde_json reads in the bytes of a request body: None when the bytes
\* are not JSON, else Some object, a function from member names to values
\* <<"num", n>> or <<"str", s>>
NotJson == None
JsonObject(obj) == Some(obj)

LowerHistory == JsonObject([ max_history_size |-> << "num", 1 >> ])
RaiseHistory ==
    JsonObject([ max_history_size |-> << "num", MaxCap + 1 >>,
                 access_token |-> << "str", OtherToken >> ])
SetTimeouts ==
    JsonObject([ upstream_timeout_ms |-> << "num", 1000 >>,
                 truncate_body_at |-> << "num", 2 >> ])
WrongType == JsonObject([ max_history_size |-> << "str", "many" >> ])
\* a max_history_size that is a usize and larger than any allocation
HugeHistory == JsonObject([ max_history_size |-> << "num", ReserveLimit + 1 >> ])

\* the bodies posted to /_proxy/api/config
\* a truncate_body_at above the max_body_size of the startup config
OverTruncate ==
    JsonObject([ truncate_body_at |-> << "num", DefaultMaxBodySize + 1 >> ])

ConfigBodies ==
    { LowerHistory, RaiseHistory, SetTimeouts, WrongType, NotJson, HugeHistory,
      OverTruncate }

AcceptHeaders ==
    << [ name |-> "accept", values |-> << TextHtml, TextPlain >> ] >>

\* the requests the proxy forwards
ProxiedRequests ==
    { [ method |-> "POST", path |-> PathTest, query |-> << << "x", "1" >> >>,
        version |-> "HTTP/1.1", headers |-> AcceptHeaders,
        body |-> << "bytes", << 112, 105, 110, 103 >> >>, json |-> NotJson ] }

AdminRequest(method, path, query, json) ==
    [ method |-> method, path |-> path, query |-> query, version |-> "HTTP/1.1",
      headers |-> NoHeaders, body |-> << "bytes", << >> >>, json |-> json ]

ValidQuery == << << "token", AccessToken >> >>
BadQuery == << << "token", OtherToken >> >>

\* the admin requests that arrive while requests are being proxied
AdminRequests ==
    { AdminRequest("POST", PathApiConfig, ValidQuery, LowerHistory),
      AdminRequest("POST", PathApiConfig, ValidQuery, RaiseHistory),
      AdminRequest("POST", PathApiConfig, ValidQuery, NotJson),
      AdminRequest("POST", PathApiConfig, BadQuery, LowerHistory),
      AdminRequest("DELETE", PathApiLogs, ValidQuery, NotJson),
      AdminRequest("GET", PathApiLogs, ValidQuery, NotJson) }

\* every admin request of the model: any method, path, query and body
AdminMethods == { "GET", "POST", "DELETE" }
AdminPaths ==
    { PathAdminRoot, PathAdminSlash, PathApiConfig, PathApiLogs, PathAsset,
      PathAssetMissing, PathAdminOther }
AdminQueries ==
    { << >>, ValidQuery, BadQuery,
      << << "x", AccessToken >> >>,
      << << "token", AccessToken >>, << "token", OtherToken >> >>,
      << << "token", OtherToken >>, << "x", "1" >>, << "token", AccessToken >> >> }
AllAdminRequests ==
    { AdminRequest(m, p, q, j) :
        m \in AdminMethods, p \in AdminPaths, q \in AdminQueries,
        j \in { LowerHistory } }
    \cup { AdminRequest("POST", PathApiConfig, ValidQuery, j) : j \in ConfigBodies }

Requests == ProxiedRequests \cup AdminRequests

\* the responses of the upstream service
HelloResponse ==
    [ status |-> 200, version |-> "HTTP/1.1", headers |-> PlainHeaders,
      body |-> << "bytes", << 72, 101, 108, 108, 111 >> >> ]
CookieResponse ==
    [ status |-> 404, version |-> "HTTP/1.0", headers |-> CookieHeaders,
      body |-> << "bytes", << >> >> ]

\* what the upstream does after the request reached it: a response head, and
\* then the body delivered whole ("complete"), a failure while the body is
\* read ("broken"), or nothing more ("stalled")
UpstreamBehaviours ==
    { << HelloResponse, "complete" >>, << CookieResponse, "complete" >>,
      << HelloResponse, "broken" >>, << HelloResponse, "stalled" >> }

\* Response::builder().status(s).body(b): version and headers are the defaults
PlainReply(status, text) ==
    [ status |-> status, version |-> "HTTP/1.1", headers |-> NoHeaders,
      body |-> << "text", text >> ]

(***************************************************************************)
(* The admin router (proxy.rs:229-390).                                    *)
(***************************************************************************)
\* an admin dispatch that takes the admin prefix for the whole path
should_handle_admin_exact(path) == path = AdminPrefix

should_handle_admin_request(path) == StartsWith(path, AdminPrefix)

\* collect::<HashMap<String, String>>() then get(key): the last pair with the key
QueryGet(query, key) ==
    LET hits == { i \in 1..Len(query) : query[i][1] = key }
    IN  IF hits = {} THEN None
        ELSE Some(query[CHOOSE i \in hits : \A j \in hits : j <= i][2])

\* a token gate that checks the token only when the query carries one
token_gate_if_given(r, cfg) ==
    LET is_static_asset == StartsWith(r.path, AssetsPrefix)
        expected_token == get_access_token(cfg)
        provided_token == QueryGet(r.query, "token")
    IN  is_static_asset \/ IsNone(provided_token)
            \/ provided_token = Some(expected_token)

\* a token gate that takes every path under /_proxy/a for a static asset
token_gate_wide_assets(r, cfg) ==
    LET is_static_asset == StartsWith(r.path, SubSeq(AssetsPrefix, 1, Len(AdminPrefix) + 2))
        expected_token == get_access_token(cfg)
        provided_token == QueryGet(r.query, "token")
    IN  is_static_asset \/ provided_token = Some(expected_token)

\* the token gate of handle_admin_request: TRUE when the request is let through
token_gate(r, cfg) ==
    LET is_static_asset == StartsWith(r.path, AssetsPrefix)
        expected_token == get_access_token(cfg)
        provided_token == QueryGet(r.query, "token")
    IN  is_static_asset \/ provided_token = Some(expected_token)

Unauthorized == PlainReply(401, "Unauthorized - Invalid or missing token")

\* the files embedded from ui/dist, by their path below /_proxy/
EmbeddedAssets == { SubSeq(PathAsset, Len(AdminPrefix) + 2, Len(PathAsset)) }

serve_admin_ui ==
    [ status |-> 200, version |-> "HTTP/1.1",
      headers |-> HeaderAppend(NoHeaders, "content-type", "text/html"),
      body |-> << "bytes", "index.html" >> ]

serve_config(cfg) ==
    [ status |-> 200, version |-> "HTTP/1.1",
      headers |-> HeaderAppend(NoHeaders, "content-type", "application/json"),
      body |-> << "json",
                  [ client_timeout_ms |-> AsMillis(cfg.client_timeout),
                    upstream_timeout_ms |-> AsMillis(cfg.upstream_timeout),
                    max_history_size |-> cfg.max_history_size,
                    max_body_size |-> cfg.max_body_size,
                    truncate_body_at |-> cfg.truncate_body_at ] >> ]

serve_logs(txns) ==
    [ status |-> 200, version |-> "HTTP/1.1",
      headers |-> HeaderAppend(NoHeaders, "content-type", "application/json"),
      body |-> << "json", get_transactions(txns) >> ]

serve_static_asset(path) ==
    LET asset_path == SubSeq(path, Len(AdminPrefix) + 2, Len(path))
    IN  IF asset_path \in EmbeddedAssets
        THEN [ status |-> 200, version |-> "HTTP/1.1",
               headers |-> HeaderAppend(NoHeaders, "content-type", "mimetype"),
               body |-> << "bytes", asset_path >> ]
        ELSE PlainReply(404, "Asset not found")

\* handle_admin_request up to its first await: the task's next position, its
\* reply if it has one, and the ring it leaves
handle_admin_request(r, cfg, txns) ==
    IF ~token_gate(r, cfg)
    THEN [ pc |-> "done", reply |-> Some(Unauthorized), txns |-> txns ]
    ELSE IF r.method = "GET" /\ r.path \in { PathAdminRoot, PathAdminSlash }
    THEN [ pc |-> "done", reply |-> Some(serve_admin_ui), txns |-> txns ]
    ELSE IF r.method = "GET" /\ r.path = PathApiConfig
    THEN [ pc |-> "done", reply |-> Some(serve_config(cfg)), txns |-> txns ]
    ELSE IF r.method = "POST" /\ r.path = PathApiConfig
    THEN [ pc |-> "admin_read_body", reply |-> None, txns |-> txns ]
    ELSE IF r.method = "GET" /\ r.path = PathApiLogs
    THEN [ pc |-> "done", reply |-> Some(serve_logs(txns)), txns |-> txns ]
    ELSE IF r.method = "DELETE" /\ r.path = PathApiLogs
    THEN [ pc |-> "done", reply |-> Some(PlainReply(200, "Logs cleared")),
           txns |-> clear(txns) ]
    ELSE IF r.method = "GET" /\ StartsWith(r.path, AssetsPrefix)
    THEN [ pc |-> "done", reply |-> Some(serve_static_asset(r.path)), txns |-> txns ]
    ELSE [ pc |-> "done", reply |-> Some(PlainReply(404, "Not Found")), txns |-> txns ]

\* serde_json::from_slice::<ConfigUpdate>: None on a parse error; members that
\* are no field of ConfigUpdate are ignored, a field must be a number
ParseConfigUpdate(json) ==
    IF IsNone(json) THEN None
    ELSE LET obj == Unwrap(json)
         IN  IF \E f \in UpdateFields \cap DOMAIN obj : obj[f][1] # "num"
             THEN None
             ELSE Some([ f \in UpdateFields |->
                           IF f \in DOMAIN obj THEN Some(obj[f][2]) ELSE None ])

(***************************************************************************)
(* handle_request (proxy.rs:70-227), one task per request.  A step is one  *)
(* await completing, or one critical section on the config or the ring.    *)
(***************************************************************************)
UpstreamAddress == "127.0.0.1:3001"

\* a task leaves "idle" only after the tasks before it: the k-th request is task k
MayStart(t) == pc[t] = "idle" /\ \A u \in Tasks : u < t => pc[u] # "idle"

Finish(t, r) ==
    /\ pc' = [ pc EXCEPT ![t] = "done" ]
    /\ reply' = [ reply EXCEPT ![t] = Some(r) ]

\* an await of the task completes: the time it took lies after start_time
Awaited(t, what) ==
    start_time' = [ start_time EXCEPT ![t] = Some(Append(Unwrap(@), what)) ]

\* the RequestInfo handle_request passes to record_request (proxy.rs:115-123)
RequestInfoOf(r, cfg) ==
    [ method |-> r.method,
      path |-> r.path,
      version |-> r.version,
      headers |-> HeaderIter(r.headers),
      body |-> r.body[2],
      client_addr |-> "unknown",
      truncate_at |-> cfg.truncate_body_at ]

\* the request sent to the upstream (proxy.rs:130-151)
UpstreamRequestOf(r) ==
    [ method |-> r.method,
      uri |-> << "http://", UpstreamAddress, r.path, r.query >>,
      version |-> r.version,
      headers |-> ForwardHeaders(r.headers),
      body |-> r.body ]

\* the ResponseInfo handle_request passes to record_response (proxy.rs:179-187)
ResponseInfoOf(id, resp, elapsed, truncate) ==
    [ request_id |-> id,
      status |-> resp.status,
      version |-> resp.version,
      headers |-> HeaderIter(resp.headers),
      body |-> resp.body[2],
      duration_ms |-> elapsed,
      truncate_at |-> truncate ]

\* the reply built from the upstream response (proxy.rs:190-205)
ReplyOf(resp) ==
    [ status |-> resp.status,
      version |-> resp.version,
      headers |-> ForwardHeaders(resp.headers),
      body |-> resp.body ]

\* an admin request arrives: token gate and routing, up to the first await
HandleAdmin(t, r) ==
    /\ MayStart(t)
    /\ should_handle_admin_request(r.path)
    /\ LET out == handle_admin_request(r, config, transactions)
       IN  /\ pc' = [ pc EXCEPT ![t] = out.pc ]
           /\ reply' = [ reply EXCEPT ![t] = out.reply ]
           /\ transactions' = out.txns
    /\ req' = [ req EXCEPT ![t] = Some(r) ]
    /\ UNCHANGED << guardVars, timeVars, argVars, procVars, lockVars, received, max_size, next_id, harnessVars, config, request_id,
                    upstream_timeout, truncate_at, upstream_req, upstream_resp,
                    body_mode, expired >>

\* POST /_proxy/api/config: reading the body fails, the error becomes a 500
AdminBodyFails(t) ==
    /\ pc[t] = "admin_read_body"
    /\ Finish(t, PlainReply(500, "Internal Server Error"))
    /\ UNCHANGED << guardVars, timeVars, argVars, procVars, lockVars, received, recorderVars, harnessVars, config, req, request_id,
                    upstream_timeout, truncate_at, upstream_req, upstream_resp,
                    body_mode, expired >>

\* update_config, first half: parse the body and apply it under the write lock
UpdateConfig(t) ==
    /\ pc[t] = "admin_read_body"
    /\ LET parsed == ParseConfigUpdate(Unwrap(req[t]).json)
       IN  IF IsNone(parsed)
           THEN /\ Finish(t, PlainReply(400, "Invalid configuration"))
                /\ UNCHANGED config
           ELSE /\ config' = apply_to(Unwrap(parsed), config)
                /\ IF IsSome(Unwrap(parsed).max_history_size)
                   THEN /\ pc' = [ pc EXCEPT ![t] = "resize" ]
                        /\ UNCHANGED reply
                   ELSE Finish(t, PlainReply(200, "Configuration updated"))
    /\ UNCHANGED << guardVars, timeVars, argVars, procVars, lockVars, received, recorderVars, harnessVars, req, request_id,
                    upstream_timeout, truncate_at, upstream_req, upstream_resp, body_mode, expired >>

\* update_config, second half: resize the recorder to the new max_history_size;
\* when reserve panics the task ends there and its client gets no response
ResizeRecorder(t) ==
    /\ pc[t] = "resize"
    /\ LET update == Unwrap(ParseConfigUpdate(Unwrap(req[t]).json))
           new_size == Unwrap(update.max_history_size)
           kept == resize(transactions, new_size)
       IN  /\ transactions' = kept
           /\ IF reserve_panics(Len(kept), new_size)
              THEN /\ pc' = [ pc EXCEPT ![t] = "panicked" ]
                   /\ UNCHANGED reply
              ELSE Finish(t, PlainReply(200, "Configuration updated"))
    /\ UNCHANGED << guardVars, timeVars, argVars, procVars, lockVars, received, max_size, next_id, harnessVars, config, req, request_id,
                    upstream_timeout, truncate_at, upstream_req, upstream_resp,
                    body_mode, expired >>

\* a request to be proxied arrives: start_time is taken, the body is being read
ReceiveProxied(t, r) ==
    /\ MayStart(t)
    /\ ~should_handle_admin_request(r.path)
    /\ pc' = [ pc EXCEPT ![t] = "read_request_body" ]
    /\ req' = [ req EXCEPT ![t] = Some(r) ]
    /\ start_time' = [ start_time EXCEPT ![t] = Some(<< >>) ]
    /\ UNCHANGED << guardVars, duration, argVars, procVars, lockVars, received, recorderVars, harnessVars, config, request_id,
                    upstream_timeout, truncate_at, upstream_req, upstream_resp,
                    body_mode, expired, reply >>

\* the request recorded before its body is read, the failure answered 400
RequestBodyFails_Recorded(t) ==
    /\ pc[t] = "read_request_body"
    /\ transactions' = record_request(transactions, max_size, next_id + 1,
                                      RequestInfoOf(Unwrap(req[t]), config))
    /\ next_id' = next_id + 1
    /\ Finish(t, PlainReply(400, "Bad Request"))
    /\ Awaited(t, "read_request_body")
    /\ UNCHANGED << guardVars, duration, argVars, procVars, lockVars, received, max_size, harnessVars, config, req, request_id,
                    upstream_timeout, truncate_at, upstream_req, upstream_resp,
                    body_mode, expired >>

\* reading the request body fails: 400, nothing recorded
RequestBodyFails(t) ==
    /\ pc[t] = "read_request_body"
    /\ Finish(t, PlainReply(400, "Bad Request"))
    /\ Awaited(t, "read_request_body")
    /\ UNCHANGED << guardVars, duration, argVars, procVars, lockVars, received, recorderVars, harnessVars, config, req, request_id,
                    upstream_timeout, truncate_at, upstream_req, upstream_resp,
                    body_mode, expired >>

\* the request body is buffered
RequestBodyRead(t) ==
    /\ pc[t] = "read_request_body"
    /\ pc' = [ pc EXCEPT ![t] = "record_request" ]
    /\ received' = Append(received, t)
    /\ Awaited(t, "read_request_body")
    /\ UNCHANGED << guardVars, duration, argVars, procVars, lockVars, recorderVars, harnessVars, config, req, request_id,
                    upstream_timeout, truncate_at, upstream_req, upstream_resp,
                    body_mode, expired, reply >>

\* under the config read lock: record the request, capture upstream_timeout;
\* then build the upstream request and dispatch it under the deadline
RecordRequest(t) ==
    /\ pc[t] = "record_request"
    /\ LET id == next_id + 1
           r == Unwrap(req[t])
       IN  /\ transactions' = record_request(transactions, max_size, id,
                                             RequestInfoOf(r, config))
           /\ next_id' = id
           /\ request_id' = [ request_id EXCEPT ![t] = Some(id) ]
           /\ upstream_timeout' =
                  [ upstream_timeout EXCEPT ![t] = Some(config.upstream_timeout) ]
           /\ upstream_req' = [ upstream_req EXCEPT ![t] = Some(UpstreamRequestOf(r)) ]
    /\ pc' = [ pc EXCEPT ![t] = "await_upstream" ]
    /\ received' = SelectSeq(received, LAMBDA u : u # t)
    /\ UNCHANGED << guardVars, timeVars, argVars, procVars, lockVars, max_size, harnessVars, config, req, truncate_at,
                    upstream_resp, body_mode, expired, reply >>

\* upstream_timeout elapses while the task waits on the upstream
DeadlineElapses(t) ==
    /\ pc[t] \in { "await_upstream", "read_response_body" }
    /\ ~expired[t]
    /\ expired' = [ expired EXCEPT ![t] = TRUE ]
    /\ UNCHANGED << guardVars, timeVars, argVars, procVars, lockVars, received, recorderVars, harnessVars, config, pc, req, request_id,
                    upstream_timeout, truncate_at, upstream_req, upstream_resp,
                    body_mode, reply >>

\* Ok(Ok(response)): the response head arrives before the deadline
UpstreamResponds(t, resp, mode) ==
    /\ pc[t] = "await_upstream"
    /\ ~expired[t]
    /\ upstream_resp' = [ upstream_resp EXCEPT ![t] = Some(resp) ]
    /\ body_mode' = [ body_mode EXCEPT ![t] = mode ]
    /\ pc' = [ pc EXCEPT ![t] = "read_response_body" ]
    /\ Awaited(t, "await_upstream")
    /\ UNCHANGED << guardVars, duration, argVars, procVars, lockVars, received, recorderVars, harnessVars, config, req, request_id,
                    upstream_timeout, truncate_at, upstream_req, expired, reply >>

\* Ok(Err(e)): the upstream client fails before the deadline
UpstreamFails(t) ==
    /\ pc[t] = "await_upstream"
    /\ ~expired[t]
    /\ transactions' = record_error(transactions, Unwrap(request_id[t]),
                                    << "Upstream error: ", "connection refused" >>)
    /\ Finish(t, PlainReply(502, "Bad Gateway"))
    /\ Awaited(t, "await_upstream")
    /\ UNCHANGED << guardVars, duration, argVars, procVars, lockVars, received, max_size, next_id, harnessVars, config, req, request_id,
                    upstream_timeout, truncate_at, upstream_req, upstream_resp,
                    body_mode, expired >>

\* the timeout answered 503 without record_error
UpstreamTimesOut_Unrecorded(t) ==
    /\ pc[t] = "await_upstream"
    /\ expired[t]
    /\ Finish(t, PlainReply(503, "Service Unavailable - Upstream Timeout"))
    /\ Awaited(t, "await_upstream")
    /\ UNCHANGED << guardVars, duration, argVars, procVars, lockVars, received, recorderVars, harnessVars, config, req, request_id,
                    upstream_timeout, truncate_at, upstream_req, upstream_resp,
                    body_mode, expired >>

\* Err(_): the deadline elapsed before the upstream client completed
UpstreamTimesOut(t) ==
    /\ pc[t] = "await_upstream"
    /\ expired[t]
    /\ transactions' = record_error(transactions, Unwrap(request_id[t]),
                                    << "Upstream timeout" >>)
    /\ Finish(t, PlainReply(503, "Service Unavailable - Upstream Timeout"))
    /\ Awaited(t, "await_upstream")
    /\ UNCHANGED << guardVars, duration, argVars, procVars, lockVars, received, max_size, next_id, harnessVars, config, req, request_id,
                    upstream_timeout, truncate_at, upstream_req, upstream_resp,
                    body_mode, expired >>

\* to_bytes(body) fails after the response head was recorded as a response:
\* the error is recorded beside it, 502
ResponseBodyFails_Both(t) ==
    /\ pc[t] = "read_response_body"
    /\ body_mode[t] = "broken"
    /\ transactions' =
           record_error(record_response(transactions,
                                        ResponseInfoOf(Unwrap(request_id[t]),
                                                       Unwrap(upstream_resp[t]),
                                                       Append(Unwrap(start_time[t]),
                                                              "read_response_body"),
                                                       config.truncate_body_at)),
                        Unwrap(request_id[t]),
                        << "Error reading response: ", "incomplete" >>)
    /\ Finish(t, PlainReply(502, "Bad Gateway"))
    /\ expired' = [ expired EXCEPT ![t] = FALSE ]
    /\ Awaited(t, "read_response_body")
    /\ UNCHANGED << guardVars, duration, argVars, procVars, lockVars, received, max_size, next_id, harnessVars, config, req, request_id,
                    upstream_timeout, truncate_at, upstream_req, upstream_resp,
                    body_mode >>

\* the failed body read recorded as the response that was received so far
ResponseBodyFails_AsResponse(t) ==
    /\ pc[t] = "read_response_body"
    /\ body_mode[t] = "broken"
    /\ transactions' =
           record_response(transactions,
                           ResponseInfoOf(Unwrap(request_id[t]),
                                          Unwrap(upstream_resp[t]),
                                          Append(Unwrap(start_time[t]),
                                                 "read_response_body"),
                                          config.truncate_body_at))
    /\ Finish(t, PlainReply(502, "Bad Gateway"))
    /\ expired' = [ expired EXCEPT ![t] = FALSE ]
    /\ Awaited(t, "read_response_body")
    /\ UNCHANGED << guardVars, duration, argVars, procVars, lockVars, received, max_size, next_id, harnessVars, config, req, request_id,
                    upstream_timeout, truncate_at, upstream_req, upstream_resp,
                    body_mode >>

\* to_bytes(body) fails: the error is recorded, 502
ResponseBodyFails(t) ==
    /\ pc[t] = "read_response_body"
    /\ body_mode[t] = "broken"
    /\ transactions' = record_error(transactions, Unwrap(request_id[t]),
                                    << "Error reading response: ", "incomplete" >>)
    /\ Finish(t, PlainReply(502, "Bad Gateway"))
    /\ expired' = [ expired EXCEPT ![t] = FALSE ]
    /\ Awaited(t, "read_response_body")
    /\ UNCHANGED << guardVars, duration, argVars, procVars, lockVars, received, max_size, next_id, harnessVars, config, req, request_id,
                    upstream_timeout, truncate_at, upstream_req, upstream_resp,
                    body_mode >>

\* to_bytes(body) completes; start_time.elapsed() is taken and
\* truncate_body_at is read from the config
ResponseBodyRead(t) ==
    /\ pc[t] = "read_response_body"
    /\ body_mode[t] = "complete"
    /\ truncate_at' = [ truncate_at EXCEPT ![t] = Some(config.truncate_body_at) ]
    /\ pc' = [ pc EXCEPT ![t] = "record_response" ]
    /\ expired' = [ expired EXCEPT ![t] = FALSE ]
    /\ Awaited(t, "read_response_body")
    /\ duration' = [ duration EXCEPT ![t] = start_time'[t] ]
    /\ UNCHANGED << guardVars, argVars, procVars, lockVars, received, recorderVars, harnessVars, config, req, request_id,
                    upstream_timeout, upstream_req, upstream_resp, body_mode,
                    reply >>

\* record_response with the truncate_body_at the config has at that moment
RecordResponse_Reread(t) ==
    /\ pc[t] = "record_response"
    /\ LET resp == Unwrap(upstream_resp[t])
       IN  /\ transactions' =
                  record_response(transactions,
                                  ResponseInfoOf(Unwrap(request_id[t]), resp,
                                                 Unwrap(duration[t]),
                                                 config.truncate_body_at))
           /\ Finish(t, ReplyOf(resp))
    /\ UNCHANGED << guardVars, timeVars, argVars, procVars, lockVars, received, max_size, next_id, harnessVars, config, req, request_id,
                    upstream_timeout, truncate_at, upstream_req, upstream_resp,
                    body_mode, expired >>

\* record_response, then the reply copied from the upstream response
RecordResponse(t) ==
    /\ pc[t] = "record_response"
    /\ LET resp == Unwrap(upstream_resp[t])
       IN  /\ transactions' =
                  record_response(transactions,
                                  ResponseInfoOf(Unwrap(request_id[t]), resp,
                                                 Unwrap(duration[t]),
                                                 Unwrap(truncate_at[t])))
           /\ Finish(t, ReplyOf(resp))
    /\ UNCHANGED << guardVars, timeVars, argVars, procVars, lockVars, received, max_size, next_id, harnessVars, config, req, request_id,
                    upstream_timeout, truncate_at, upstream_req, upstream_resp,
                    body_mode, expired >>

Next ==
    \/ \E t \in Tasks, r \in Requests : HandleAdmin(t, r)
    \/ \E t \in Tasks : AdminBodyFails(t)
    \/ \E t \in Tasks : UpdateConfig(t)
    \/ \E t \in Tasks : ResizeRecorder(t)
    \/ \E t \in Tasks, r \in Requests : ReceiveProxied(t, r)
    \/ \E t \in Tasks : RequestBodyFails(t)
    \/ \E t \in Tasks : RequestBodyRead(t)
    \/ \E t \in Tasks : RecordRequest(t)
    \/ \E t \in Tasks : DeadlineElapses(t)
    \/ \E t \in Tasks, b \in UpstreamBehaviours : UpstreamResponds(t, b[1], b[2])
    \/ \E t \in Tasks : UpstreamFails(t)
    \/ \E t \in Tasks : UpstreamTimesOut(t)
    \/ \E t \in Tasks : ResponseBodyFails(t)
    \/ \E t \in Tasks : ResponseBodyRead(t)
    \/ \E t \in Tasks : RecordResponse(t)

Spec == Init /\ [][Next]_vars

(***************************************************************************)
(* The admin surface on its own: admin requests of every method, path and  *)
(* query, one after the other.                                             *)
(***************************************************************************)
AdminTasks == 1..NumAdminTasks

AdminNext ==
    \/ \E t \in AdminTasks, r \in AllAdminRequests : HandleAdmin(t, r)
    \/ \E t \in AdminTasks : AdminBodyFails(t)
    \/ \E t \in AdminTasks : UpdateConfig(t)
    \/ \E t \in AdminTasks : ResizeRecorder(t)

AdminSpec == Init /\ [][AdminNext]_vars

(***************************************************************************)
(* The dispatch of handle_request on its own: requests of every method to  *)
(* admin paths and to other paths, each taken through its whole handler.   *)
(***************************************************************************)
RoutePaths ==
    AdminPaths \cup { PathTest, PathSlow, PathNearPrefix, PathInnerPrefix, PathRoot }

RouteRequests ==
    { AdminRequest(m, p, ValidQuery, LowerHistory) :
        m \in AdminMethods, p \in RoutePaths }

RouteNext ==
    \/ \E t \in AdminTasks, r \in RouteRequests : HandleAdmin(t, r)
    \/ \E t \in AdminTasks : AdminBodyFails(t)
    \/ \E t \in AdminTasks : UpdateConfig(t)
    \/ \E t \in AdminTasks : ResizeRecorder(t)
    \/ \E t \in AdminTasks, r \in RouteRequests : ReceiveProxied(t, r)
    \/ \E t \in AdminTasks : RequestBodyFails(t)
    \/ \E t \in AdminTasks : RequestBodyRead(t)
    \/ \E t \in AdminTasks : RecordRequest(t)
    \/ \E t \in AdminTasks : DeadlineElapses(t)
    \/ \E t \in AdminTasks, b \in UpstreamBehaviours :
          UpstreamResponds(t, b[1], b[2])
    \/ \E t \in AdminTasks : UpstreamFails(t)
    \/ \E t \in AdminTasks : UpstreamTimesOut(t)
    \/ \E t \in AdminTasks : ResponseBodyFails(t)
    \/ \E t \in AdminTasks : ResponseBodyRead(t)
    \/ \E t \in AdminTasks : RecordResponse(t)

RouteSpec == Init /\ [][RouteNext]_vars

(***************************************************************************)
(* ConfigUpdate::apply_to on its own: any sequence of updates, each with   *)
(* any subset of its fields, applied to the startup config.                *)
(***************************************************************************)
ConfigUpdates ==
    [ client_timeout_ms : { None, Some(5000), Some(1) },
      upstream_timeout_ms : { None, Some(800), Some(1500) },
      max_history_size : { None, Some(200) },
      max_body_size : { None, Some(10) },
      truncate_body_at : { None, Some(2048) } ]

ApplyUpdate(update) ==
    /\ config' = apply_to(update, config)
    /\ UNCHANGED << guardVars, timeVars, argVars, procVars, lockVars, received, recorderVars, harnessVars, taskVars >>

ConfigNext == \E update \in ConfigUpdates : ApplyUpdate(update)

ConfigSpec == Init /\ [][ConfigNext]_vars

(***************************************************************************)
(* SharedConfig on its own, statement by statement: tasks that update the  *)
(* config under the write guard (SharedConfig::update running apply_to)    *)
(* and tasks that read several fields under one read guard.                *)
(***************************************************************************)
LockTasks == 1..NumLockTasks

NoUpdate == [ f \in UpdateFields |-> None ]

LockUpdates ==
    { Unwrap(ParseConfigUpdate(SetTimeouts)),
      [ client_timeout_ms |-> None, upstream_timeout_ms |-> Some(800),
        max_history_size |-> Some(200), max_body_size |-> None,
        truncate_body_at |-> Some(2048) ] }

ReadKinds == { "serve_config", "handle_request" }

At(t, where) == lock_pc[t].at = where

Goto(t, where, k) == lock_pc' = [ lock_pc EXCEPT ![t] = [ at |-> where, k |-> k ] ]

\* a task calls config.update(|config| update.apply_to(config))
BeginUpdate(t, update) ==
    /\ At(t, "idle")
    /\ lock_op' = [ lock_op EXCEPT ![t] = Some([ kind |-> "update", update |-> update ]) ]
    /\ Goto(t, "write", 0)
    /\ UNCHANGED << guardVars, timeVars, argVars, procVars, cfg_lock, seen, committed, config, received, recorderVars,
                    harnessVars, taskVars >>

\* self.inner.write() returns the guard
AcquireWrite(t) ==
    /\ At(t, "write")
    /\ write_lock_free(cfg_lock)
    /\ cfg_lock' = [ cfg_lock EXCEPT !.writer = Some(t) ]
    /\ Goto(t, "apply", 1)
    /\ UNCHANGED << guardVars, timeVars, argVars, procVars, lock_op, seen, committed, config, received, recorderVars,
                    harnessVars, taskVars >>

\* one statement of apply_to, under the write guard
ApplyField(t) ==
    /\ At(t, "apply")
    /\ config' = apply_field(Unwrap(lock_op[t]).update, config, lock_pc[t].k)
    /\ IF lock_pc[t].k < 5
       THEN Goto(t, "apply", lock_pc[t].k + 1)
       ELSE Goto(t, "release_write", 0)
    /\ UNCHANGED << guardVars, timeVars, argVars, procVars, cfg_lock, lock_op, seen, committed, received, recorderVars,
                    harnessVars, taskVars >>

\* the write guard is dropped at the end of update
ReleaseWrite(t) ==
    /\ At(t, "release_write")
    /\ cfg_lock' = [ cfg_lock EXCEPT !.writer = None ]
    /\ committed' = Append(committed, config)
    /\ Goto(t, "done", 0)
    /\ UNCHANGED << guardVars, timeVars, argVars, procVars, lock_op, seen, config, received, recorderVars, harnessVars,
                    taskVars >>

\* a task calls config.read() to read some fields
BeginRead(t, kind) ==
    /\ At(t, "idle")
    /\ lock_op' = [ lock_op EXCEPT ![t] = Some([ kind |-> kind, update |-> NoUpdate ]) ]
    /\ Goto(t, "read", 0)
    /\ UNCHANGED << guardVars, timeVars, argVars, procVars, cfg_lock, seen, committed, config, received, recorderVars,
                    harnessVars, taskVars >>

\* self.inner.read() returns the guard
AcquireRead(t) ==
    /\ At(t, "read")
    /\ read_lock_free(cfg_lock)
    /\ cfg_lock' = [ cfg_lock EXCEPT !.readers = @ \cup { t } ]
    /\ Goto(t, "read_field", 1)
    /\ UNCHANGED << guardVars, timeVars, argVars, procVars, lock_op, seen, committed, config, received, recorderVars,
                    harnessVars, taskVars >>

\* one field read through the read guard
ReadField(t) ==
    /\ At(t, "read_field")
    /\ LET order == ReadOrder(Unwrap(lock_op[t]).kind)
           f == order[lock_pc[t].k]
       IN  /\ seen' = [ seen EXCEPT ![t] = Append(@, << f, config[f] >>) ]
           /\ IF lock_pc[t].k < Len(order)
              THEN Goto(t, "read_field", lock_pc[t].k + 1)
              ELSE Goto(t, "release_read", 0)
    /\ UNCHANGED << guardVars, timeVars, argVars, procVars, cfg_lock, lock_op, committed, config, received, recorderVars,
                    harnessVars, taskVars >>

\* the read guard is dropped
ReleaseRead(t) ==
    /\ At(t, "release_read")
    /\ cfg_lock' = [ cfg_lock EXCEPT !.readers = @ \ { t } ]
    /\ Goto(t, "done", 0)
    /\ UNCHANGED << guardVars, timeVars, argVars, procVars, lock_op, seen, committed, config, received, recorderVars,
                    harnessVars, taskVars >>

LockNext ==
    \/ \E t \in LockTasks, update \in LockUpdates : BeginUpdate(t, update)
    \/ \E t \in LockTasks : AcquireWrite(t)
    \/ \E t \in LockTasks : ApplyField(t)
    \/ \E t \in LockTasks : ReleaseWrite(t)
    \/ \E t \in LockTasks, kind \in ReadKinds : BeginRead(t, kind)
    \/ \E t \in LockTasks : AcquireRead(t)
    \/ \E t \in LockTasks : ReadField(t)
    \/ \E t \in LockTasks : ReleaseRead(t)

LockSpec == Init /\ [][LockNext]_vars

(***************************************************************************)
(* The recorder on its own: any sequence of calls of its public methods,   *)
(* as the unit tests make them.                                            *)
(***************************************************************************)
HarnessInfos ==
    [ method : { "GET" }, path : { PathTest }, version : { "HTTP/1.1" },
      headers : { << >> }, body : { << 98, 111, 100, 121 >> },
      client_addr : { "127.0.0.1:12345" }, truncate_at : { 100 } ]

HarnessResponses ==
    [ request_id : 1..MaxRecords, status : { 200, 404 }, version : { "HTTP/1.1" },
      headers : { << >> }, body : { << 79, 75 >> },
      duration_ms : { << "await_upstream" >> }, truncate_at : { 100 } ]

HarnessErrors == { << "Connection timeout" >> }

RecRequest(info) ==
    /\ next_id < MaxRecords
    /\ transactions' = record_request(transactions, max_size, next_id + 1, info)
    /\ next_id' = next_id + 1
    /\ inserted' = Append(inserted, next_id + 1)
    /\ last_call' = [ op |-> "record_request", id |-> next_id + 1 ]
    /\ UNCHANGED << guardVars, timeVars, argVars, procVars, lockVars, received, max_size, disturbed, config, taskVars >>

RecResponse(info) ==
    /\ transactions' = record_response(transactions, info)
    /\ last_call' = [ op |-> "record_response", id |-> info.request_id ]
    /\ UNCHANGED << guardVars, timeVars, argVars, procVars, lockVars, received, max_size, next_id, inserted, disturbed, config, taskVars >>

RecError(id, error) ==
    /\ transactions' = record_error(transactions, id, error)
    /\ last_call' = [ op |-> "record_error", id |-> id ]
    /\ UNCHANGED << guardVars, timeVars, argVars, procVars, lockVars, received, max_size, next_id, inserted, disturbed, config, taskVars >>

RecClear ==
    /\ transactions' = clear(transactions)
    /\ disturbed' = TRUE
    /\ last_call' = [ op |-> "clear", id |-> 0 ]
    /\ UNCHANGED << guardVars, timeVars, argVars, procVars, lockVars, received, max_size, next_id, inserted, config, taskVars >>

\* resize returns, or panics in reserve after the entries were popped
RecResize(new_size) ==
    /\ transactions' = resize(transactions, new_size)
    /\ disturbed' = TRUE
    /\ last_call' =
           [ op |-> IF reserve_panics(Len(resize(transactions, new_size)), new_size)
                    THEN "resize_panicked" ELSE "resize",
             id |-> new_size ]
    /\ UNCHANGED << guardVars, timeVars, argVars, procVars, lockVars, received, max_size, next_id, inserted, config, taskVars >>

RecorderNext ==
    \/ \E info \in HarnessInfos : RecRequest(info)
    \/ \E info \in HarnessResponses : RecResponse(info)
    \/ \E id \in 1..MaxRecords, e \in HarnessErrors : RecError(id, e)
    \/ RecClear
    \/ \E k \in 0..(MaxCap + 1) \cup { ReserveLimit + 1 } : RecResize(k)

RecorderSpec == Init /\ [][RecorderNext]_vars

(***************************************************************************)
(* Body analysis on its own: one request recorded on a new recorder, with  *)
(* any body, content-type header and truncate_at of the sets below, and    *)
(* then one response recorded for it.                                      *)
(***************************************************************************)
AppJson == Chars_application \o << "/" >> \o Chars_json
AppJavascript == Chars_application \o << "/" >> \o Chars_javascript
AppXml == Chars_application \o << "/" >> \o Chars_xml
AppLdJson == Chars_application \o << "/", "l", "d", "+" >> \o Chars_json
AppAtomXml == Chars_application \o << "/", "a", "t", "o", "m", "+" >> \o Chars_xml
AppOctet == Chars_application \o << "/", "o", "c", "t", "e", "t" >>
ImagePng == << "i", "m", "a", "g", "e", "/", "p", "n", "g" >>
TextParams == TextHtml \o << ";", " ", "q", "=", "1" >>
NoSlash == Chars_text
OpaqueType == TextPlain \o << OpaqueChar >>

ContentTypes ==
    { TextPlain, TextParams, AppJson, AppJavascript, AppXml, AppLdJson,
      AppAtomXml, AppOctet, ImagePng, NoSlash, OpaqueType }

\* no content-type, one, or two of which get() returns the first
BodyHeaders ==
    { << >> }
    \cup { << << "content-type", ct >> >> : ct \in ContentTypes }
    \cup { << << "content-type", AppOctet >>, << "content-type", TextPlain >> >> }

\* empty, with a null byte, text, control bytes below and above 30%,
\* and UTF-8 that is invalid or is cut inside a character at 2 bytes
Bodies ==
    { << >>, << 0 >>, << 104, 105 >>, << 104, 0, 105 >>,
      << 137, 80, 78, 71, 0, 13, 10, 26 >>, << 1, 2, 104 >>,
      << 1, 104, 105, 106 >>, << 195, 40 >>, << 195, 169 >>,
      << 104, 195, 169 >> }

TruncateAts == { 0, 2, 100 }

BodyInfos ==
    [ method : { "POST" }, path : { PathTest }, version : { "HTTP/1.1" },
      headers : BodyHeaders, body : Bodies,
      client_addr : { "127.0.0.1:12345" }, truncate_at : TruncateAts ]

BodyResponses ==
    [ request_id : { 1 }, status : { 200 }, version : { "HTTP/1.1" },
      headers : BodyHeaders, body : Bodies,
      duration_ms : { << "await_upstream" >> }, truncate_at : TruncateAts ]

\* record_request on a new recorder
RecordBody(info) ==
    /\ next_id = 0
    /\ RecRequest(info)

\* record_response for the request recorded, when that one had no body
RecordResponseBody(info) ==
    /\ next_id = 1
    /\ Len(transactions) = 1
    /\ transactions[1].request.body.size = 0
    /\ IsNone(transactions[1].request.body.content_type)
    /\ IsNone(transactions[1].response)
    /\ RecResponse(info)

BodyNext ==
    \/ \E info \in BodyInfos : RecordBody(info)
    \/ \E info \in BodyResponses : RecordResponseBody(info)

BodySpec == Init /\ [][BodyNext]_vars

(***************************************************************************)
(* The binary heuristic of is_binary_content on its own: bodies of every   *)
(* length up to MaxBodyLen with every number of control bytes, no null     *)
(* byte, and no content-type or one that is not textual.                   *)
(***************************************************************************)
\* the body of n bytes whose first c bytes are the control byte 0x01 and whose
\* other bytes are all the byte fill
HeuristicBody(n, c, fill) == [ i \in 1..n |-> IF i <= c THEN 1 ELSE fill ]

\* the letter a and the tab
FillBytes == { 97, 9 }

HeuristicHeaders == { << >>, << << "content-type", AppOctet >> >> }

HeuristicInfo(n, c, fill, headers) ==
    [ method |-> "POST", path |-> PathTest, version |-> "HTTP/1.1",
      headers |-> headers, body |-> HeuristicBody(n, c, fill),
      client_addr |-> "127.0.0.1:12345", truncate_at |-> 100 ]

HeuristicNext ==
    \E n \in 1..MaxBodyLen, c \in 0..MaxBodyLen, fill \in FillBytes,
       headers \in HeuristicHeaders :
        /\ c <= n
        /\ RecordBody(HeuristicInfo(n, c, fill, headers))

HeuristicSpec == Init /\ [][HeuristicNext]_vars

(***************************************************************************)
(* Reconfiguration in flight: proxied requests taken through their whole   *)
(* handler while POST /_proxy/api/config changes upstream_timeout and      *)
(* truncate_body_at.                                                       *)
(***************************************************************************)
ReconfigTasks == 1..NumReconfigTasks

SetTruncate == JsonObject([ truncate_body_at |-> << "num", 3 >> ])

ReconfigRequests ==
    ProxiedRequests
    \cup { AdminRequest("POST", PathApiConfig, ValidQuery, j) :
             j \in { SetTimeouts, SetTruncate } }

ReconfigNext ==
    \/ \E t \in ReconfigTasks, r \in ReconfigRequests : HandleAdmin(t, r)
    \/ \E t \in ReconfigTasks : AdminBodyFails(t)
    \/ \E t \in ReconfigTasks : UpdateConfig(t)
    \/ \E t \in ReconfigTasks, r \in ReconfigRequests : ReceiveProxied(t, r)
    \/ \E t \in ReconfigTasks : RequestBodyFails(t)
    \/ \E t \in ReconfigTasks : RequestBodyRead(t)
    \/ \E t \in ReconfigTasks : RecordRequest(t)
    \/ \E t \in ReconfigTasks : DeadlineElapses(t)
    \/ \E t \in ReconfigTasks, b \in UpstreamBehaviours :
          UpstreamResponds(t, b[1], b[2])
    \/ \E t \in ReconfigTasks : UpstreamFails(t)
    \/ \E t \in ReconfigTasks : UpstreamTimesOut(t)
    \/ \E t \in ReconfigTasks : ResponseBodyFails(t)
    \/ \E t \in ReconfigTasks : ResponseBodyRead(t)
    \/ \E t \in ReconfigTasks : RecordResponse(t)

ReconfigSpec == Init /\ [][ReconfigNext]_vars

(***************************************************************************)
(* The admin surface beside recorded traffic: proxied requests fill the    *)
(* ring while admin requests of every method, path and query arrive.       *)
(***************************************************************************)
\* the first request is the proxied one, the others are admin requests
ProxiedTask == 1
GateTasks == 2..(NumGateTasks + 1)

GateNext ==
    \/ \E t \in GateTasks, r \in AllAdminRequests : HandleAdmin(t, r)
    \/ \E t \in GateTasks : AdminBodyFails(t)
    \/ \E t \in GateTasks : UpdateConfig(t)
    \/ \E t \in GateTasks : ResizeRecorder(t)
    \/ \E r \in ProxiedRequests : ReceiveProxied(ProxiedTask, r)
    \/ RequestBodyRead(ProxiedTask)
    \/ RecordRequest(ProxiedTask)
    \/ UpstreamResponds(ProxiedTask, HelloResponse, "complete")
    \/ ResponseBodyRead(ProxiedTask)
    \/ RecordResponse(ProxiedTask)

GateSpec == Init /\ [][GateNext]_vars

(***************************************************************************)
(* The guards of the request path.  What a handler does with the two locks *)
(* is a program: the sequence of its lock operations and awaits, in the    *)
(* order of the code.  << "read", l >> and << "write", l >> take a guard   *)
(* of lock l, << "drop", l >> drops it, << "await", what >> is a           *)
(* suspension point.  A task is at the instruction it executes next: at an *)
(* await it is suspended, at a read or write it waits for the guard.       *)
(***************************************************************************)
\* the ways a proxied request ends (proxy.rs:101-226)
Outcomes == { "bad_request", "responded", "body_failed", "upstream_failed", "timed_out" }

\* RequestRecorder::record_request, record_response, record_error, clear and
\* resize: the write guard of the ring, dropped when the method returns
RingWrite == << << "write", "ring" >>, << "drop", "ring" >> >>

\* RequestRecorder::get_transactions: the read guard of the ring
RingRead == << << "read", "ring" >>, << "drop", "ring" >> >>

\* a handle_request that keeps the config guard of the record block until the
\* upstream has answered
HandleRequestProgram_GuardKept(outcome) ==
    << << "await", "read_request_body" >> >>
    \o (IF outcome = "bad_request" THEN << >>
        ELSE << << "read", "config" >> >> \o RingWrite
             \o << << "await", "upstream" >>, << "drop", "config" >> >>
             \o (IF outcome = "responded"
                 THEN << << "await", "read_response_body" >>,
                         << "read", "config" >>, << "drop", "config" >> >>
                      \o RingWrite
                 ELSE IF outcome = "body_failed"
                 THEN << << "await", "read_response_body" >> >> \o RingWrite
                 ELSE RingWrite))

\* handle_request for a proxied request (proxy.rs:95-226): the body is read;
\* under the config read guard the request is recorded; the upstream is
\* awaited; then record_error, or the response body is read, truncate_body_at
\* is read under a config read guard of its own and record_response is called
HandleRequestProgram(outcome) ==
    << << "await", "read_request_body" >> >>
    \o (IF outcome = "bad_request" THEN << >>
        ELSE << << "read", "config" >> >> \o RingWrite
             \o << << "drop", "config" >>, << "await", "upstream" >> >>
             \o (IF outcome = "responded"
                 THEN << << "await", "read_response_body" >>,
                         << "read", "config" >>, << "drop", "config" >> >>
                      \o RingWrite
                 ELSE IF outcome = "body_failed"
                 THEN << << "await", "read_response_body" >> >> \o RingWrite
                 ELSE RingWrite))

\* the ways an admin request is answered (proxy.rs:233-283)
AdminRoutes ==
    { "unauthorized", "admin_ui", "get_config", "post_config_unread",
      "post_config_invalid", "post_config", "post_config_resize", "get_logs",
      "clear_logs", "static_asset", "not_found" }

\* the token gate: get_access_token takes and drops a config read guard;
\* requests for static assets skip it
TokenGate(route) ==
    IF route = "static_asset" THEN << >>
    ELSE << << "read", "config" >>, << "drop", "config" >> >>

\* an update_config that resizes the recorder first and applies the update
\* to the config before the ring guard is dropped
AdminProgram_ResizeFirst(route) ==
    TokenGate(route)
    \o (IF route = "get_config"
        THEN << << "read", "config" >>, << "drop", "config" >> >>
        ELSE IF route \in { "post_config_unread", "post_config_invalid" }
        THEN << << "await", "admin_read_body" >> >>
        ELSE IF route = "post_config"
        THEN << << "await", "admin_read_body" >>,
                << "write", "config" >>, << "drop", "config" >> >>
        ELSE IF route = "post_config_resize"
        THEN << << "await", "admin_read_body" >>,
                << "write", "ring" >>, << "write", "config" >>,
                << "drop", "config" >>, << "drop", "ring" >> >>
        ELSE IF route = "get_logs" THEN RingRead
        ELSE IF route = "clear_logs" THEN RingWrite
        ELSE << >>)

\* handle_admin_request (proxy.rs:233-283) with serve_config, update_config,
\* serve_logs and clear_logs
AdminProgram(route) ==
    TokenGate(route)
    \o (IF route = "get_config"
        THEN << << "read", "config" >>, << "drop", "config" >> >>
        ELSE IF route \in { "post_config_unread", "post_config_invalid" }
        THEN << << "await", "admin_read_body" >> >>
        ELSE IF route = "post_config"
        THEN << << "await", "admin_read_body" >>,
                << "write", "config" >>, << "drop", "config" >> >>
        ELSE IF route = "post_config_resize"
        THEN << << "await", "admin_read_body" >>,
                << "write", "config" >>, << "drop", "config" >> >>
             \o RingWrite
        ELSE IF route = "get_logs" THEN RingRead
        ELSE IF route = "clear_logs" THEN RingWrite
        ELSE << >>)

GuardTasks == 1..NumGuardTasks

\* the instruction a task is at: None before its request and after its reply
InstructionOf(t) ==
    IF handler_at[t].k \in 1..Len(handler_at[t].program)
    THEN Some(handler_at[t].program[handler_at[t].k])
    ELSE None

AtOp(t, ops) == IsSome(InstructionOf(t)) /\ Unwrap(InstructionOf(t))[1] \in ops

\* the task waits for a guard of lock l, in that mode
WaitsFor(t, mode, l) == InstructionOf(t) = Some(<< mode, l >>)

\* the locks a task holds a guard of
HeldBy(t) ==
    { l \in LockNames : rw_locks[l].writer = Some(t) \/ t \in rw_locks[l].readers }

\* parking_lot::RwLock: write() is granted when no guard is held; read() when
\* no write guard is held and no writer waits for the lock
WriteGranted(l) == IsNone(rw_locks[l].writer) /\ rw_locks[l].readers = {}
ReadGranted(l) ==
    /\ IsNone(rw_locks[l].writer)
    /\ \A u \in GuardTasks : ~WaitsFor(u, "write", l)

Advance(t) == handler_at' = [ handler_at EXCEPT ![t].k = @ + 1 ]

otherVars ==
    << timeVars, argVars, procVars, recorderVars, harnessVars, config, taskVars,
       received, lockVars >>

\* a request arrives and its handler starts
HandlerStarts(t, program) ==
    /\ handler_at[t] = NotStarted
    /\ handler_at' = [ handler_at EXCEPT ![t] = [ program |-> program, k |-> 1 ] ]
    /\ UNCHANGED << rw_locks, otherVars >>

\* inner.read() or transactions.read() returns the guard
TakeRead(t) ==
    /\ AtOp(t, { "read" })
    /\ LET l == Unwrap(InstructionOf(t))[2]
       IN  /\ ReadGranted(l)
           /\ rw_locks' = [ rw_locks EXCEPT ![l].readers = @ \cup { t } ]
    /\ Advance(t)
    /\ UNCHANGED otherVars

\* inner.write() or transactions.write() returns the guard
TakeWrite(t) ==
    /\ AtOp(t, { "write" })
    /\ LET l == Unwrap(InstructionOf(t))[2]
       IN  /\ WriteGranted(l)
           /\ rw_locks' = [ rw_locks EXCEPT ![l].writer = Some(t) ]
    /\ Advance(t)
    /\ UNCHANGED otherVars

\* the guard goes out of scope
DropGuard(t) ==
    /\ AtOp(t, { "drop" })
    /\ LET l == Unwrap(InstructionOf(t))[2]
       IN  rw_locks' =
               [ rw_locks EXCEPT ![l] =
                   [ writer |-> IF @.writer = Some(t) THEN None ELSE @.writer,
                     readers |-> @.readers \ { t } ] ]
    /\ Advance(t)
    /\ UNCHANGED otherVars

\* the future the task awaits completes
Resume(t) ==
    /\ AtOp(t, { "await" })
    /\ Advance(t)
    /\ UNCHANGED << rw_locks, otherVars >>

GuardStep(t) ==
    \/ \E outcome \in Outcomes : HandlerStarts(t, HandleRequestProgram(outcome))
    \/ \E route \in AdminRoutes : HandlerStarts(t, AdminProgram(route))
    \/ TakeRead(t)
    \/ TakeWrite(t)
    \/ DropGuard(t)
    \/ Resume(t)

GuardNext == \E t \in GuardTasks : GuardStep(t)

GuardSpec == Init /\ [][GuardNext]_vars

\* the runtime polls every task that is ready, and a guard that can be
\* granted to a waiting task is granted
GuardFairSpec == GuardSpec /\ \A t \in GuardTasks : WF_vars(GuardStep(t))

(***************************************************************************)
(* ProcessManager (process.rs) and the processes it spawns.  A process is  *)
(* "unborn" until spawned, then "running", "exited" once it has terminated *)
(* and waits to be reaped, and "reaped" once its status has been collected.*)
(* waitpid(2) fails only with ECHILD, that is when the process has been    *)
(* reaped already: by the kernel when the proxy inherited SIGCHLD ignored. *)
(* A call holds the Mutex from its first line to its return; start,        *)
(* is_running and get_pid do nothing else under it and are one step each,  *)
(* stop sleeps and waits under it and is three steps.                      *)
(***************************************************************************)
coreVars == << recorderVars, harnessVars, config, taskVars, received, lockVars >>

\* the command vector the ProcessManager is constructed with
Command == << "sleep", "0.1" >>

\* restart() calling start before stop
restart_start_first == << "start", "stop" >>

\* ProcessManager::restart: the calls it makes, in order (a sleep of 100 ms
\* between them)
restart == << "stop", "start" >>

\* a Drop that only looks at the handle and leaves the child alone
drop_peek == << "get_pid" >>

\* impl Drop for ProcessManager: drop(&mut self) calls self.stop(), for every
\* clone that goes out of scope
drop == << "stop" >>

\* the calls a public method, or the drop of a clone, makes on the manager
Plan(op) ==
    IF op = "restart" THEN restart
    ELSE IF op = "drop" THEN drop
    ELSE << op >>

Running == { p \in Pids : procs[p] = "running" }

\* the thread is about to run the body of the named method
About(th, call) ==
    /\ exit_code = None
    /\ sup_pc[th].op # "idle"
    /\ Head(sup_pc[th].plan) = call
    /\ sup_pc[th].at = "call"

\* self.child.lock() succeeds
MutexFree == child_mutex = None

\* a thread calls a method of the manager
CallOp(th, op) ==
    sup_pc' = [ sup_pc EXCEPT ![th] =
                  [ op |-> op, plan |-> Plan(op), at |-> "call", taken |-> None,
                    prior |-> child, done |-> << >> ] ]

\* the method the thread is in returns; the `?` of restart ends it on an Err
Complete(th, result, pid) ==
    LET me == sup_pc[th]
        rest == Tail(me.plan)
    IN  IF rest = << >> \/ result = "err"
        THEN /\ sup_pc' = [ sup_pc EXCEPT ![th] = IdleThread ]
             /\ sup_ret' = [ sup_ret EXCEPT ![th] =
                               [ op |-> me.op, result |-> result, pid |-> pid,
                                 prior |-> me.prior ] ]
        ELSE /\ sup_pc' = [ sup_pc EXCEPT ![th] =
                              [ me EXCEPT !.plan = rest, !.at = "call",
                                          !.taken = None,
                                          !.done = Append(me.done,
                                                          << Head(me.plan), result >>) ] ]
             /\ UNCHANGED sup_ret

\* Command::spawn succeeds with a new process, or fails
Spawn(th, p) ==
    /\ procs[p] = "unborn"
    /\ \A q \in 1..(p - 1) : procs[q] # "unborn"
    /\ procs' = [ procs EXCEPT ![p] = "running" ]
    /\ child' = Some(p)
    /\ Complete(th, "ok", None)

SpawnFails(th) ==
    /\ UNCHANGED << procs, child >>
    /\ Complete(th, "err", None)

\* start() without the test for a stored handle
Start_Unchecked(th) ==
    /\ About(th, "start")
    /\ MutexFree
    /\ IF Len(Command) = 0
       THEN /\ UNCHANGED << procs, child >>
            /\ Complete(th, "err", None)
       ELSE \/ \E p \in Pids : Spawn(th, p)
            \/ SpawnFails(th)
    /\ UNCHANGED << guardVars, timeVars, argVars, coreVars, child_mutex, signals_sent, monitor, exit_code >>

\* ProcessManager::start
Start(th) ==
    /\ About(th, "start")
    /\ MutexFree
    /\ IF IsSome(child)
       THEN /\ UNCHANGED << procs, child >>
            /\ Complete(th, "ok", None)
       ELSE IF Len(Command) = 0
       THEN /\ UNCHANGED << procs, child >>
            /\ Complete(th, "err", None)
       ELSE \/ \E p \in Pids : Spawn(th, p)
            \/ SpawnFails(th)
    /\ UNCHANGED << guardVars, timeVars, argVars, coreVars, child_mutex, signals_sent, monitor, exit_code >>

\* ProcessManager::stop, to the end of the grace sleep: the handle is taken
\* and SIGTERM sent, or there is no handle and stop returns
StopTake(th) ==
    /\ About(th, "stop")
    /\ MutexFree
    /\ IF IsSome(child)
       THEN /\ child_mutex' = Some(th)
            /\ child' = None
            /\ signals_sent' = Append(signals_sent, << Unwrap(child), "SIGTERM" >>)
            /\ sup_pc' = [ sup_pc EXCEPT ![th].at = "grace", ![th].taken = child ]
            /\ UNCHANGED sup_ret
       ELSE /\ UNCHANGED << child_mutex, child, signals_sent >>
            /\ Complete(th, "ok", None)
    /\ UNCHANGED << guardVars, timeVars, argVars, coreVars, procs, monitor, exit_code >>

\* the taken child's handle when stop returns: dropped by the guard's owner
ReleaseMutex == child_mutex' = None

\* stop sending SIGKILL and returning without child.wait()
StopCheck_NoWait(th) ==
    /\ exit_code = None
    /\ sup_pc[th].at = "grace"
    /\ LET p == Unwrap(sup_pc[th].taken)
       IN  IF procs[p] = "exited"
           THEN /\ procs' = [ procs EXCEPT ![p] = "reaped" ]
                /\ ReleaseMutex
                /\ Complete(th, "ok", None)
                /\ UNCHANGED signals_sent
           ELSE IF procs[p] = "running"
           THEN /\ signals_sent' = Append(signals_sent, << p, "SIGKILL" >>)
                /\ ReleaseMutex
                /\ Complete(th, "ok", None)
                /\ UNCHANGED procs
           ELSE /\ sup_pc' = [ sup_pc EXCEPT ![th].at = "wait" ]
                /\ UNCHANGED << procs, signals_sent, child_mutex, sup_ret >>
    /\ UNCHANGED << guardVars, timeVars, argVars, coreVars, child, monitor, exit_code >>

\* stop after the grace sleep: try_wait on the taken child.  Ok(Some): reaped,
\* return; Ok(None): SIGKILL; Err: logged.  The last two go on to child.wait()
StopCheck(th) ==
    /\ exit_code = None
    /\ sup_pc[th].at = "grace"
    /\ LET p == Unwrap(sup_pc[th].taken)
       IN  IF procs[p] = "exited"
           THEN /\ procs' = [ procs EXCEPT ![p] = "reaped" ]
                /\ ReleaseMutex
                /\ Complete(th, "ok", None)
                /\ UNCHANGED signals_sent
           ELSE IF procs[p] = "running"
           THEN /\ signals_sent' = Append(signals_sent, << p, "SIGKILL" >>)
                /\ sup_pc' = [ sup_pc EXCEPT ![th].at = "wait" ]
                /\ UNCHANGED << procs, child_mutex, sup_ret >>
           ELSE /\ sup_pc' = [ sup_pc EXCEPT ![th].at = "wait" ]
                /\ UNCHANGED << procs, signals_sent, child_mutex, sup_ret >>
    /\ UNCHANGED << guardVars, timeVars, argVars, coreVars, child, monitor, exit_code >>

\* let _ = child.wait(): returns when the child has terminated, reaping it
\* (or with the ECHILD error, ignored); then stop returns Ok
StopWait(th) ==
    /\ exit_code = None
    /\ sup_pc[th].at = "wait"
    /\ LET p == Unwrap(sup_pc[th].taken)
       IN  /\ procs[p] # "running"
           /\ procs' = [ procs EXCEPT ![p] = "reaped" ]
    /\ ReleaseMutex
    /\ Complete(th, "ok", None)
    /\ UNCHANGED << guardVars, timeVars, argVars, coreVars, child, signals_sent, monitor, exit_code >>

\* is_running() keeping the handle when the status check fails
IsRunning_KeepOnError(th) ==
    /\ About(th, "is_running")
    /\ MutexFree
    /\ IF IsNone(child)
       THEN /\ Complete(th, "false", None)
            /\ UNCHANGED << child, procs, monitor >>
       ELSE LET p == Unwrap(child)
            IN  IF procs[p] = "running"
                THEN /\ Complete(th, "true", None)
                     /\ UNCHANGED << child, procs, monitor >>
                ELSE IF procs[p] = "exited"
                THEN /\ procs' = [ procs EXCEPT ![p] = "reaped" ]
                     /\ child' = None
                     /\ monitor' = [ monitor EXCEPT !.observed = @ + 1 ]
                     /\ Complete(th, "false", None)
                ELSE /\ Complete(th, "false", None)
                     /\ UNCHANGED << child, procs, monitor >>
    /\ UNCHANGED << guardVars, timeVars, argVars, coreVars, child_mutex, signals_sent, exit_code >>

\* ProcessManager::is_running.  try_wait gives Ok(None) for a running child,
\* Ok(Some) for one that exited (reaping it), Err for one reaped already;
\* observed counts the times a handle was cleared
IsRunning(th) ==
    /\ About(th, "is_running")
    /\ MutexFree
    /\ IF IsNone(child)
       THEN /\ Complete(th, "false", None)
            /\ UNCHANGED << child, procs, monitor >>
       ELSE LET p == Unwrap(child)
            IN  IF procs[p] = "running"
                THEN /\ Complete(th, "true", None)
                     /\ UNCHANGED << child, procs, monitor >>
                ELSE /\ procs' = [ procs EXCEPT ![p] = "reaped" ]
                     /\ child' = None
                     /\ monitor' = [ monitor EXCEPT !.observed = @ + 1 ]
                     /\ Complete(th, "false", None)
    /\ UNCHANGED << guardVars, timeVars, argVars, coreVars, child_mutex, signals_sent, exit_code >>

\* ProcessManager::get_pid
GetPid(th) ==
    /\ About(th, "get_pid")
    /\ MutexFree
    /\ Complete(th, "ok", child)
    /\ UNCHANGED << guardVars, timeVars, argVars, coreVars, child, child_mutex, procs, signals_sent, monitor,
                    exit_code >>

\* a child terminates: by itself, or on a signal it was sent
ChildExits(p) ==
    /\ procs[p] = "running"
    /\ procs' = [ procs EXCEPT ![p] = "exited" ]
    /\ UNCHANGED << guardVars, timeVars, argVars, coreVars, child, child_mutex, sup_pc, sup_ret, signals_sent,
                    monitor, exit_code >>

\* the kernel discards a terminated child nobody waits for (SIGCHLD ignored)
ReapedByKernel(p) ==
    /\ procs[p] = "exited"
    /\ \A th \in Threads : sup_pc[th].at # "wait"
    /\ procs' = [ procs EXCEPT ![p] = "reaped" ]
    /\ UNCHANGED << guardVars, timeVars, argVars, coreVars, child, child_mutex, sup_pc, sup_ret, signals_sent,
                    monitor, exit_code >>

(***************************************************************************)
(* The manager on its own: two threads that call its methods in any order. *)
(***************************************************************************)
Methods == { "start", "stop", "is_running", "get_pid", "restart" }

\* the methods a thread calls: main() calls them all from its main thread,
\* the signal task calls stop
MethodsOf(th) == IF th = "main" THEN Methods ELSE { "stop" }

Call(th, op) ==
    /\ sup_pc[th].op = "idle"
    /\ CallOp(th, op)
    /\ UNCHANGED << guardVars, timeVars, argVars, coreVars, child, child_mutex, procs, sup_ret, signals_sent,
                    monitor, exit_code >>

SupervisorNext ==
    \/ \E th \in Threads : \E op \in MethodsOf(th) : Call(th, op)
    \/ \E th \in Threads : Start(th)
    \/ \E th \in Threads : StopTake(th)
    \/ \E th \in Threads : StopCheck(th)
    \/ \E th \in Threads : StopWait(th)
    \/ \E th \in Threads : IsRunning(th)
    \/ \E th \in Threads : GetPid(th)
    \/ \E p \in Pids : ChildExits(p)
    \/ \E p \in Pids : ReapedByKernel(p)

SupervisorSpec == Init /\ [][SupervisorNext]_vars

(***************************************************************************)
(* The clones of the manager: #[derive(Clone)] copies the Arc, so the      *)
(* ProcessManager of the main thread and the clone moved into the signal   *)
(* task (main.rs:143) use one Mutex<Option<Child>>.  Each thread calls the *)
(* methods on its clone until its clone is dropped.                        *)
(***************************************************************************)
\* the threads whose clone has been dropped: a drop is the last call of a thread
Dropped == { th \in Threads : sup_ret[th].op = "drop" }

CloneMethodsOf(th) == MethodsOf(th) \cup { "drop" }

CloneCall(th, op) ==
    /\ th \notin Dropped
    /\ Call(th, op)

CloneNext ==
    \/ \E th \in Threads : \E op \in CloneMethodsOf(th) : CloneCall(th, op)
    \/ \E th \in Threads : Start(th)
    \/ \E th \in Threads : StopTake(th)
    \/ \E th \in Threads : StopCheck(th)
    \/ \E th \in Threads : StopWait(th)
    \/ \E th \in Threads : IsRunning(th)
    \/ \E th \in Threads : GetPid(th)
    \/ \E p \in Pids : ChildExits(p)
    \/ \E p \in Pids : ReapedByKernel(p)

CloneSpec == Init /\ [][CloneNext]_vars

(***************************************************************************)
(* main() with a supervised command (main.rs:93-211): the startup, the     *)
(* monitor loop on the main thread and the signal task on a worker thread. *)
(* monitor.at is where the main thread is; server_finished stands for      *)
(* server_handle.is_finished(), signalled for the select of the signal     *)
(* task having completed.                                                  *)
(***************************************************************************)
\* the main thread moves on
MainAt(where) == monitor' = [ monitor EXCEPT !.at = where ]

\* the main thread is at a place of main() and in no call on the manager
MainIs(where) ==
    /\ exit_code = None
    /\ monitor.at = where
    /\ sup_pc["main"].op = "idle"

\* pm.start() before the proxy is created
Startup ==
    /\ MainIs("startup")
    /\ CallOp("main", "start")
    /\ MainAt("started")
    /\ UNCHANGED << guardVars, timeVars, argVars, coreVars, child, child_mutex, procs, sup_ret, signals_sent,
                    exit_code >>

\* the `?` on the result of pm.start(): main returns the error, or goes on to
\* spawn the signal task and the server and enters the loop
StartupDone ==
    /\ MainIs("started")
    /\ IF sup_ret["main"].result = "err"
       THEN exit_code' = Some(1) /\ UNCHANGED monitor
       ELSE MainAt("check") /\ UNCHANGED exit_code
    /\ UNCHANGED << guardVars, timeVars, argVars, coreVars, child, child_mutex, procs, sup_pc, sup_ret,
                    signals_sent >>

\* SIGTERM or SIGINT arrives: the signal task calls pm.stop()
SignalArrives ==
    /\ exit_code = None
    /\ monitor.at \notin { "startup", "started" }
    /\ ~monitor.signalled
    /\ monitor' = [ monitor EXCEPT !.signalled = TRUE ]
    /\ CallOp("signal", "stop")
    /\ UNCHANGED << guardVars, timeVars, argVars, coreVars, child, child_mutex, procs, sup_ret, signals_sent,
                    exit_code >>

\* the signal task, after pm.stop() has returned: exit(0)
SignalExit ==
    /\ exit_code = None
    /\ monitor.signalled
    /\ sup_pc["signal"].op = "idle"
    /\ exit_code' = Some(0)
    /\ UNCHANGED << guardVars, timeVars, argVars, coreVars, child, child_mutex, procs, sup_pc, sup_ret,
                    signals_sent, monitor >>

\* the server task ends
ServerFinishes ==
    /\ exit_code = None
    /\ monitor.at \notin { "startup", "started" }
    /\ ~monitor.server_finished
    /\ monitor' = [ monitor EXCEPT !.server_finished = TRUE ]
    /\ UNCHANGED << guardVars, timeVars, argVars, coreVars, child, child_mutex, procs, sup_pc, sup_ret,
                    signals_sent, exit_code >>

\* the top of the loop: pm.stop() when the server has finished, otherwise
\* pm.is_running()
MonitorCheck ==
    /\ MainIs("check")
    /\ IF monitor.server_finished
       THEN CallOp("main", "stop") /\ MainAt("server_stop")
       ELSE CallOp("main", "is_running") /\ MainAt("decide")
    /\ UNCHANGED << guardVars, timeVars, argVars, coreVars, child, child_mutex, procs, sup_ret, signals_sent,
                    exit_code >>

\* std::process::exit(1) after the stop for a finished server
MonitorServerExit ==
    /\ MainIs("server_stop")
    /\ exit_code' = Some(1)
    /\ UNCHANGED << guardVars, timeVars, argVars, coreVars, child, child_mutex, procs, sup_pc, sup_ret,
                    signals_sent, monitor >>

\* if !pm.is_running() { pm.restart() }, then the sleep of one second
MonitorDecide ==
    /\ MainIs("decide")
    /\ IF sup_ret["main"].result = "false"
       THEN /\ monitor.restarts < MaxRestarts
            /\ CallOp("main", "restart")
            /\ monitor' = [ monitor EXCEPT !.at = "restarting", !.restarts = @ + 1 ]
       ELSE /\ MainAt("check")
            /\ UNCHANGED sup_pc
    /\ UNCHANGED << guardVars, timeVars, argVars, coreVars, child, child_mutex, procs, sup_ret, signals_sent,
                    exit_code >>

\* pm.restart() has returned: its result is logged, then the sleep
MonitorRestarted ==
    /\ MainIs("restarting")
    /\ MainAt("check")
    /\ UNCHANGED << guardVars, timeVars, argVars, coreVars, child, child_mutex, procs, sup_pc, sup_ret,
                    signals_sent, exit_code >>

MainNext ==
    \/ Startup
    \/ StartupDone
    \/ SignalArrives
    \/ SignalExit
    \/ ServerFinishes
    \/ MonitorCheck
    \/ MonitorServerExit
    \/ MonitorDecide
    \/ MonitorRestarted
    \/ \E th \in Threads : Start(th)
    \/ \E th \in Threads : StopTake(th)
    \/ \E th \in Threads : StopCheck(th)
    \/ \E th \in Threads : StopWait(th)
    \/ \E th \in Threads : IsRunning(th)
    \/ \E p \in Pids : ChildExits(p)
    \/ \E p \in Pids : ReapedByKernel(p)

MainSpec == Init /\ [][MainNext]_vars

(***************************************************************************)
(* parse_upstream_target (main.rs:214-232) on its own: main() is given one *)
(* upstream argument and validates it.  A string is a sequence of          *)
(* characters; a Result is << "Ok", value >> or << "Err", message >>.      *)
(***************************************************************************)
\* str::split(c).collect(): the parts between the separators, one more than
\* there are separators
RECURSIVE Split(_, _)
Split(s, c) ==
    LET i == IndexOf(s, c)
    IN  IF i = 0 THEN << s >>
        ELSE << SubSeq(s, 1, i - 1) >> \o Split(SubSeq(s, i + 1, Len(s)), c)

DigitChars == << "0", "1", "2", "3", "4", "5", "6", "7", "8", "9" >>

IsDigit(c) == \E d \in 1..10 : DigitChars[d] = c

\* the value of a sequence of decimal digits
RECURSIVE DecimalValue(_)
DecimalValue(s) ==
    IF Len(s) = 0 THEN 0
    ELSE DecimalValue(SubSeq(s, 1, Len(s) - 1)) * 10 + (IndexOf(DigitChars, s[Len(s)]) - 1)

\* str::parse::<u16>: an optional "+", then one digit at least, digits only,
\* a value up to u16::MAX.  None stands for Err.
ParseU16(s) ==
    LET digits == IF Len(s) > 0 /\ s[1] = "+" THEN Tail(s) ELSE s
    IN  IF Len(s) = 0 \/ Len(digits) = 0 THEN None
        ELSE IF \E i \in 1..Len(digits) : ~IsDigit(digits[i]) THEN None
        ELSE IF DecimalValue(digits) > 65535 THEN None
        ELSE Some(DecimalValue(digits))

\* parse_upstream_target taking the first two parts of any longer split
parse_upstream_target_lenient(target) ==
    LET parts == Split(target, ":")
    IN  IF Len(parts) < 2
        THEN << "Err", "Upstream target must be in format host:port" >>
        ELSE IF Len(parts[1]) = 0 THEN << "Err", "Host part cannot be empty" >>
        ELSE IF IsNone(ParseU16(parts[2])) THEN << "Err", "Invalid port number" >>
        ELSE << "Ok", target >>

\* parse_upstream_target
parse_upstream_target(target) ==
    LET parts == Split(target, ":")
    IN  IF Len(parts) # 2
        THEN << "Err", "Upstream target must be in format host:port" >>
        ELSE IF Len(parts[1]) = 0 THEN << "Err", "Host part cannot be empty" >>
        ELSE IF IsNone(ParseU16(parts[2])) THEN << "Err", "Invalid port number" >>
        ELSE << "Ok", target >>

Chars_localhost == << "l", "o", "c", "a", "l", "h", "o", "s", "t" >>
Chars_3000 == << "3", "0", "0", "0" >>

\* hosts: empty, a name, an address, a blank
TargetHosts ==
    { << >>, Chars_localhost, << "1", "9", "2", ".", "1", "6", "8", ".", "1", ".", "1" >>,
      << " " >> }

\* ports: empty, in range, the largest, one too large, signed, not a number,
\* with leading zeros, with a blank
TargetPorts ==
    { << >>, << "0" >>, Chars_3000, << "8", "0", "8", "0" >>,
      << "6", "5", "5", "3", "5" >>, << "6", "5", "5", "3", "6" >>,
      << "+", "8", "0" >>, << "-", "1" >>, << "+" >>,
      << "i", "n", "v", "a", "l", "i", "d" >>, << "8", "x" >>,
      << "0", "0", "8", "0" >>, << " ", "8", "0" >> }

\* what follows the port: nothing, or a third part
TargetTails == { << >>, << ":" >>, << ":", "9", "0", "0", "0" >> }

\* the upstream arguments: a host alone, host:port, and host:port with a tail
Targets ==
    TargetHosts
    \cup { h \o << ":" >> \o p \o t : h \in TargetHosts, p \in TargetPorts,
                                      t \in TargetTails }

\* main() validates its upstream argument
ParseArgs(target) ==
    /\ upstream_addr = None
    /\ upstream_addr' =
           Some([ target |-> target, result |-> parse_upstream_target(target) ])
    /\ UNCHANGED << guardVars, timeVars, coreVars, procVars >>

TargetNext == \E target \in Targets : ParseArgs(target)

TargetSpec == Init /\ [][TargetNext]_vars

(***************************************************************************)
(* C1: after N record_request calls on a recorder of capacity C, with no   *)
(* clear or resize, get_transactions returns min(N, C) transactions: the   *)
(* last min(N, C) inserted, in insertion order.                            *)
(***************************************************************************)
C1_RingKeepsLastInserted ==
    ~disturbed =>
        LET n == Len(inserted)
            k == Min(n, max_size)
        IN  /\ Len(get_transactions(transactions)) = k
            /\ Ids(get_transactions(transactions)) = LastK(inserted, k)

\* more requests recorded than the capacity, which is more than one
C1_Witness ==
    /\ ~disturbed
    /\ max_size > 1
    /\ Len(inserted) > max_size + 1

(***************************************************************************)
(* C3: record_response and record_error with an id no transaction has      *)
(* leave the ring unchanged; otherwise they set the response (the error)   *)
(* of exactly the transaction with that id and change nothing else.        *)
(***************************************************************************)
\* ring b is ring a with field f of the transaction with id set to v, or a
AttachedOnly(a, b, id, f, v) ==
    /\ Len(b) = Len(a)
    /\ \A i \in 1..Len(a) :
          IF a[i].request.id = id
          THEN /\ b[i][f] = Some(v)
               /\ \A g \in DOMAIN a[i] \ { f } : b[i][g] = a[i][g]
          ELSE b[i] = a[i]

C3_AttachFrame ==
    [][ /\ \A info \in HarnessResponses :
              RecResponse(info) =>
                  AttachedOnly(transactions, transactions', info.request_id,
                               "response", ResponseRecord(info))
        /\ \A id \in 1..MaxRecords, e \in HarnessErrors :
              RecError(id, e) =>
                  AttachedOnly(transactions, transactions', id, "error", e)
      ]_vars

\* a response was recorded for an evicted id while another transaction is kept
C3_Witness ==
    /\ last_call.op = "record_response"
    /\ last_call.id \in Range(inserted)
    /\ \A i \in 1..Len(transactions) : transactions[i].request.id # last_call.id
    /\ \E i \in 1..Len(transactions) : IsSome(transactions[i].error)
    /\ Len(transactions) > 1


(***************************************************************************)
(* Claims about the handler.                                               *)
(***************************************************************************)
\* the transactions of the ring recorded for task t
TxnsOf(t) ==
    { i \in 1..Len(transactions) :
        IsSome(request_id[t]) /\ transactions[i].request.id = Unwrap(request_id[t]) }

Replied(t, status, text) ==
    /\ pc[t] = "done"
    /\ IsSome(reply[t])
    /\ Unwrap(reply[t]).status = status
    /\ Unwrap(reply[t]).body = << "text", text >>

(***************************************************************************)
(* C2: the ring never holds more transactions than the config's            *)
(* max_history_size, whatever proxied requests and config updates          *)
(* interleave; taken outside the window in which an update has written the *)
(* config and not yet resized the recorder.                                *)
(***************************************************************************)
C2_RingWithinMaxHistory ==
    (\A t \in Tasks : pc[t] # "resize") =>
        Len(transactions) <= config.max_history_size

(***************************************************************************)
(* C4: when the upstream response arrived within the deadline and its body *)
(* was read, the reply has the status, version, headers (as a multiset)    *)
(* and body of the upstream response.                                      *)
(***************************************************************************)
C4_ReplyCopiesUpstream ==
    \A t \in Tasks :
        (pc[t] = "done" /\ IsSome(upstream_resp[t]) /\ body_mode[t] = "complete") =>
            LET resp == Unwrap(upstream_resp[t])
                sent == Unwrap(reply[t])
            IN  /\ sent.status = resp.status
                /\ sent.version = resp.version
                /\ SameHeaderMultiset(sent.headers, resp.headers)
                /\ sent.body = resp.body

(***************************************************************************)
(* C5: when the upstream did not complete within the captured timeout, the *)
(* reply is 503 "Service Unavailable - Upstream Timeout" and the request's *)
(* transaction, if still in the ring, has the error "Upstream timeout" and *)
(* no response.                                                            *)
(***************************************************************************)
C5_TimeoutReplies503 ==
    \A t \in Tasks :
        (pc[t] = "done" /\ expired[t]) =>
            /\ Replied(t, 503, "Service Unavailable - Upstream Timeout")
            /\ \A i \in TxnsOf(t) :
                  /\ transactions[i].error = Some(<< "Upstream timeout" >>)
                  /\ transactions[i].response = None

\* a task timed out and its transaction is in the ring beside another one
C5_Witness ==
    \E t \in Tasks :
        /\ pc[t] = "done" /\ expired[t]
        /\ TxnsOf(t) # {}
        /\ Len(transactions) > 1

(***************************************************************************)
(* C6: upstream_timeout is a hard deadline for the whole upstream round    *)
(* trip: once it has elapsed, no handler is left waiting on the upstream,  *)
(* neither for the response head nor for the response body, so every       *)
(* recorded request gets its reply.                                        *)
(***************************************************************************)
\* the steps task t can take by itself, the passing of time aside
HandlerStep(t) ==
    \/ UpstreamTimesOut(t)
    \/ ResponseBodyFails(t)
    \/ ResponseBodyRead(t)

C6_HardDeadline ==
    \A t \in Tasks :
        (pc[t] \in { "await_upstream", "read_response_body" } /\ expired[t]) =>
            ENABLED HandlerStep(t)

(***************************************************************************)
(* C7: when the upstream client fails before the deadline, or reading the  *)
(* response body fails, the reply is 502 and the request's transaction, if *)
(* still in the ring, has an error with the prefix "Upstream error: "      *)
(* (resp. "Error reading response: ") and no response.                     *)
(***************************************************************************)
UpstreamErrored(t) ==
    /\ pc[t] = "done"
    /\ IsSome(upstream_req[t])
    /\ IsNone(upstream_resp[t])
    /\ ~expired[t]

BodyBroken(t) == pc[t] = "done" /\ body_mode[t] = "broken"

ErrorRecorded(t, prefix) ==
    \A i \in TxnsOf(t) :
        /\ IsSome(transactions[i].error)
        /\ Len(Unwrap(transactions[i].error)) = 2
        /\ Unwrap(transactions[i].error)[1] = prefix
        /\ transactions[i].response = None

C7_UpstreamErrorReplies502 ==
    \A t \in Tasks :
        /\ UpstreamErrored(t) =>
              /\ pc[t] = "done" /\ Unwrap(reply[t]).status = 502
              /\ ErrorRecorded(t, "Upstream error: ")
        /\ BodyBroken(t) =>
              /\ pc[t] = "done" /\ Unwrap(reply[t]).status = 502
              /\ ErrorRecorded(t, "Error reading response: ")

\* both failures happened and both transactions are in the ring
C7_Witness ==
    \E t, u \in Tasks :
        /\ UpstreamErrored(t) /\ TxnsOf(t) # {}
        /\ BodyBroken(u) /\ TxnsOf(u) # {}

(***************************************************************************)
(* C8: when reading the client's request body fails, the reply is 400, the *)
(* ring is left as it was (nothing is recorded for the request) and the    *)
(* request is never dispatched to the upstream.                            *)
(***************************************************************************)
C8_BadRequestNotRecorded ==
    /\ [][ \A t \in Tasks :
             RequestBodyFails(t) =>
                 /\ transactions' = transactions
                 /\ next_id' = next_id
                 /\ pc'[t] = "done"
                 /\ Unwrap(reply'[t]).status = 400 ]_vars
    /\ [] (\A t \in Tasks :
             (pc[t] = "done" /\ Unwrap(reply[t]).status = 400
                  /\ ~should_handle_admin_request(Unwrap(req[t]).path)) =>
                 /\ IsNone(upstream_req[t])
                 /\ IsNone(request_id[t]))

\* a request body could not be read while the ring held a transaction
C8_Witness ==
    \E t \in Tasks :
        /\ Replied(t, 400, "Bad Request")
        /\ ~should_handle_admin_request(Unwrap(req[t]).path)
        /\ Len(transactions) > 0

(***************************************************************************)
(* C9: every admin request, of any method, to a path that starts with      *)
(* /_proxy and not with /_proxy/assets/, whose query has no token          *)
(* parameter equal to the stored access token, is answered 401             *)
(* "Unauthorized - Invalid or missing token".                              *)
(***************************************************************************)
LacksToken(r) ==
    \A i \in 1..Len(r.query) : r.query[i] # << "token", config.access_token >>

C9_MissingTokenIs401 ==
    \A t \in Tasks :
        ( /\ IsSome(req[t])
          /\ StartsWith(Unwrap(req[t]).path, AdminPrefix)
          /\ ~StartsWith(Unwrap(req[t]).path, AssetsPrefix)
          /\ LacksToken(Unwrap(req[t])) ) =>
            Replied(t, 401, "Unauthorized - Invalid or missing token")

\* a DELETE of the logs whose query names the token under another key
C9_Witness ==
    \E t \in Tasks :
        /\ IsSome(req[t])
        /\ Unwrap(req[t]).method = "DELETE"
        /\ Unwrap(req[t]).path = PathApiLogs
        /\ Unwrap(req[t]).query = << << "x", AccessToken >> >>
        /\ Replied(t, 401, "Unauthorized - Invalid or missing token")

(***************************************************************************)
(* C10: after any admin and proxied requests, config POSTs with an         *)
(* access_token member included, the config's access_token is the one it   *)
(* was constructed with.                                                   *)
(***************************************************************************)
C10_AccessTokenFixed == config.access_token = AccessToken

\* a config POST carrying an access_token member was applied
C10_Witness ==
    \E t \in Tasks :
        /\ Replied(t, 200, "Configuration updated")
        /\ Unwrap(req[t]).json = RaiseHistory
        /\ config.max_history_size = MaxCap + 1

(***************************************************************************)
(* C11: a request is handled by the admin router exactly when its path     *)
(* starts with /_proxy.  An admin request is never forwarded to the        *)
(* upstream and never adds a transaction to the ring; every other request  *)
(* goes through the proxied pipeline.                                      *)
(***************************************************************************)
AdminPositions == { "admin_read_body", "resize", "done", "panicked" }
ProxiedPositions ==
    { "read_request_body", "record_request", "await_upstream",
      "read_response_body", "record_response", "done" }

C11_AdminIffPrefix ==
    /\ [] (\A t \in Tasks :
             IsSome(req[t]) =>
                 IF StartsWith(Unwrap(req[t]).path, AdminPrefix)
                 THEN /\ pc[t] \in AdminPositions
                      /\ IsNone(upstream_req[t])
                      /\ IsNone(request_id[t])
                 ELSE /\ pc[t] \in ProxiedPositions
                      /\ pc[t] = "done" =>
                             \/ IsSome(request_id[t]) /\ IsSome(upstream_req[t])
                             \/ Replied(t, 400, "Bad Request"))
    /\ [][ \A t \in Tasks :
             ( /\ pc'[t] # pc[t]
               /\ IsSome(req'[t])
               /\ StartsWith(Unwrap(req'[t]).path, AdminPrefix) ) =>
                 /\ Len(transactions') <= Len(transactions)
                 /\ next_id' = next_id ]_vars

\* a path that only begins with the prefix was answered by the admin router
C11_Witness ==
    \E t \in Tasks :
        /\ IsSome(req[t])
        /\ Unwrap(req[t]).path = PathAdminOther
        /\ Replied(t, 404, "Not Found")
        /\ IsNone(upstream_req[t])

(***************************************************************************)
(* C12: a POST to /_proxy/api/config with a valid token whose body was     *)
(* read and parses as a ConfigUpdate is answered 200 and the config read   *)
(* afterwards shows the value of every supplied field; a body that does    *)
(* not parse is answered 400 with the config and the ring left unchanged.  *)
(***************************************************************************)
\* task t ran update_config on the body of its request and has ended
ConfigPosted(t) ==
    /\ IsSome(req[t])
    /\ Unwrap(req[t]).method = "POST"
    /\ Unwrap(req[t]).path = PathApiConfig
    /\ token_gate(Unwrap(req[t]), config)
    /\ pc[t] \in { "done", "panicked" }
    /\ ~Replied(t, 500, "Internal Server Error")

\* the body of GET /_proxy/api/config has the value of every field of update
ShowsSupplied(update, cfg) ==
    \A f \in UpdateFields :
        IsSome(update[f]) => serve_config(cfg).body[2][f] = Unwrap(update[f])

C12_ConfigPostApplied ==
    \A t \in AdminTasks :
        ConfigPosted(t) =>
            LET parsed == ParseConfigUpdate(Unwrap(req[t]).json)
            IN  IF IsSome(parsed)
                THEN /\ Replied(t, 200, "Configuration updated")
                     /\ ShowsSupplied(Unwrap(parsed), config)
                ELSE /\ Replied(t, 400, "Invalid configuration")
                     /\ config = StartupConfig(max_size)
                     /\ transactions = << >>

(***************************************************************************)
(* C13: apply_to sets each field that is present in the update to the      *)
(* supplied value and leaves every other field of the config, the access   *)
(* token included, as it was.                                              *)
(***************************************************************************)
\* the config field an update field writes, read back in the update's unit
ConfigValue(cfg, f) ==
    CASE f = "client_timeout_ms" -> AsMillis(cfg.client_timeout)
      [] f = "upstream_timeout_ms" -> AsMillis(cfg.upstream_timeout)
      [] f = "max_history_size" -> cfg.max_history_size
      [] f = "max_body_size" -> cfg.max_body_size
      [] f = "truncate_body_at" -> cfg.truncate_body_at

ConfigField(cfg, f) ==
    CASE f = "client_timeout_ms" -> cfg.client_timeout
      [] f = "upstream_timeout_ms" -> cfg.upstream_timeout
      [] f = "max_history_size" -> cfg.max_history_size
      [] f = "max_body_size" -> cfg.max_body_size
      [] f = "truncate_body_at" -> cfg.truncate_body_at

C13_ApplyToFrame ==
    [][ \A update \in ConfigUpdates :
          ApplyUpdate(update) =>
              /\ \A f \in UpdateFields :
                    IF IsSome(update[f])
                    THEN ConfigValue(config', f) = Unwrap(update[f])
                    ELSE ConfigField(config', f) = ConfigField(config, f)
              /\ DOMAIN config' = DOMAIN config
              /\ config'.access_token = config.access_token ]_vars

\* the timeouts were updated, then the sizes, one field left at its default
C13_Witness ==
    /\ AsMillis(config.upstream_timeout) = 1500
    /\ AsMillis(config.client_timeout) = 1
    /\ config.max_body_size = 10
    /\ config.max_history_size = 200
    /\ config.truncate_body_at = DefaultTruncateBody

(***************************************************************************)
(* C15: in every reachable state, from the startup config through any      *)
(* sequence of admin config updates, truncate_body_at <= max_body_size.    *)
(***************************************************************************)
C15_TruncateWithinMaxBody == config.truncate_body_at <= config.max_body_size

(***************************************************************************)
(* C14: config updates are atomic for readers.  Under any interleaving of  *)
(* updates and reads, the fields a task reads under one read guard are     *)
(* those of the config as it was before or after whole updates, never of a *)
(* partially applied update; and updates are serialized: each config a     *)
(* writer leaves is apply_to of one update on the config the writer before *)
(* it left.                                                                *)
(***************************************************************************)
ReadsWhole(t) ==
    \E i \in 1..Len(committed) :
        \A j \in 1..Len(seen[t]) : seen[t][j][2] = committed[i][seen[t][j][1]]

C14_ConfigUpdatesAtomic ==
    /\ \A t \in LockTasks : ReadsWhole(t)
    /\ \A i \in 2..Len(committed) :
          \E update \in LockUpdates :
              committed[i] = apply_to(update, committed[i - 1])

\* a reader that asked for the lock before the writer released it has read
\* both of its fields after the update
C14_Witness ==
    \E t, w \in LockTasks :
        /\ At(t, "done") /\ At(w, "done")
        /\ Unwrap(lock_op[t]).kind = "handle_request"
        /\ Unwrap(lock_op[w]).kind = "update"
        /\ seen[t] = << << "truncate_body_at", 2 >>,
                        << "upstream_timeout", DurationFromMillis(1000) >> >>

(***************************************************************************)
(* C16: immediately after resize(k) on a ring holding n transactions,      *)
(* get_transactions returns min(n, k) transactions: the most recently      *)
(* inserted ones of the ring, in insertion order.                          *)
(***************************************************************************)
C16_ResizeKeepsNewest ==
    [][ \A k \in 0..(ReserveLimit + 1) :
          RecResize(k) =>
              LET n == Len(transactions)
              IN  /\ Len(get_transactions(transactions')) = Min(n, k)
                  /\ get_transactions(transactions') = LastK(transactions, Min(n, k))
      ]_vars

\* a resize to one entry has returned and the ring holds the newest of several
C16_Witness ==
    /\ last_call = [ op |-> "resize", id |-> 1 ]
    /\ Len(inserted) > 2
    /\ Ids(transactions) = << inserted[Len(inserted)] >>

(***************************************************************************)
(* C17: after clear(), called directly or through DELETE /_proxy/api/logs  *)
(* with a valid token, get_transactions returns the empty sequence,        *)
(* whatever the ring held; and it stays empty until the next               *)
(* record_request.                                                         *)
(***************************************************************************)
ClearCalled ==
    \/ RecClear
    \/ \E t \in Tasks, r \in Requests :
          /\ HandleAdmin(t, r)
          /\ r.method = "DELETE"
          /\ r.path = PathApiLogs
          /\ token_gate(r, config)

C17_ClearEmptiesRing ==
    [][ /\ ClearCalled => get_transactions(transactions') = << >>
        /\ (transactions = << >> /\ next_id' = next_id) =>
               get_transactions(transactions') = << >>
      ]_vars

\* the logs were cleared after requests had been recorded, and a response
\* that arrived for one of them afterwards left the ring empty
C17_Witness ==
    \E t, u \in Tasks :
        /\ Replied(t, 200, "Logs cleared")
        /\ transactions = << >>
        /\ pc[u] = "done"
        /\ IsSome(request_id[u])
        /\ IsSome(upstream_resp[u])
        /\ t < u

(***************************************************************************)
(* C18: under any interleaving of concurrent proxied requests, the         *)
(* transactions appear in the ring in the order in which their handlers    *)
(* finished buffering the request body: the handler that records is the    *)
(* one whose body completed first among those not yet recorded.            *)
(***************************************************************************)
C18_RingInReceiveOrder ==
    [][ \A t \in Tasks : RecordRequest(t) => Head(received) = t ]_vars

(***************************************************************************)
(* C18 as amended: the transactions appear in the ring in the order of the *)
(* record_request calls, each made after its handler buffered its body;    *)
(* handlers that have both buffered their bodies may record in either      *)
(* order.                                                                  *)
(***************************************************************************)
C18_RingInRecordOrder ==
    /\ [][ \A t \in Tasks :
             RecordRequest(t) =>
                 LET n == Len(transactions')
                 IN  /\ t \in Range(received)
                     /\ transactions'[n].request.id = Unwrap(request_id'[t])
                     /\ SubSeq(transactions', 1, n - 1) = LastK(transactions, n - 1)
          ]_vars
    /\ [] (\A i, j \in 1..Len(transactions) :
             i < j => transactions[i].request.id < transactions[j].request.id)

\* the ring holds the transaction of a later request before that of an
\* earlier one
C18_Witness ==
    \E t, u \in Tasks :
        /\ t < u
        /\ TxnsOf(t) # {} /\ TxnsOf(u) # {}
        /\ \A i \in TxnsOf(t), j \in TxnsOf(u) : j < i

(***************************************************************************)
(* C19: a response or an error is attached only after record_request made  *)
(* the request visible.  Every snapshot that shows a response shows it in   *)
(* the transaction of the request with the response's id, and a            *)
(* transaction with a response or an error in one snapshot was in the ring *)
(* in the state before it got that response or error.                      *)
(***************************************************************************)
Attached(txn) == IsSome(txn.response) \/ IsSome(txn.error)

C19_AttachAfterVisible ==
    /\ [] (\A i \in 1..Len(transactions) :
             IsSome(transactions[i].response) =>
                 Unwrap(transactions[i].response).id = transactions[i].request.id)
    /\ [][ \A i \in 1..Len(transactions') :
             Attached(transactions'[i]) =>
                 \E j \in 1..Len(transactions) :
                     /\ transactions[j].request = transactions'[i].request
                     /\ Attached(transactions[j]) \/ i = j ]_vars

\* one transaction has its response, another its error, and the response
\* of a third request came after its transaction had been evicted
C19_Witness ==
    /\ \E i \in 1..Len(transactions) : IsSome(transactions[i].response)
    /\ \E i \in 1..Len(transactions) : IsSome(transactions[i].error)
    /\ \E t \in Tasks :
          /\ pc[t] = "done"
          /\ IsSome(request_id[t])
          /\ IsSome(upstream_resp[t])
          /\ body_mode[t] = "complete"
          /\ TxnsOf(t) = {}

(***************************************************************************)
(* C20: for any body bytes containing a 0x00 byte, whatever the headers    *)
(* (any content-type included), the resulting BodyRecord has               *)
(* is_binary = true.                                                       *)
(***************************************************************************)
HasNull(body) == \E i \in 1..Len(body) : body[i] = 0

\* the BodyRecord the step has written for the request, for the response
RequestBodyRecord == transactions'[Len(transactions')].request.body
ResponseBodyRecord == Unwrap(transactions'[1].response).body

C20_NullByteIsBinary ==
    [][ /\ \A info \in BodyInfos :
              (RecordBody(info) /\ HasNull(info.body)) =>
                  RequestBodyRecord.is_binary
        /\ \A info \in BodyResponses :
              (RecordResponseBody(info) /\ HasNull(info.body)) =>
                  ResponseBodyRecord.is_binary
      ]_vars

(***************************************************************************)
(* C20 as amended: for any body bytes containing a 0x00 byte, is_binary is *)
(* true unless the first content-type header is a media type of text/*,    *)
(* application/json, application/javascript or application/xml (with or    *)
(* without parameters), and then is_binary is false.                       *)
(***************************************************************************)
TextualTypes == { TextPlain, TextParams, AppJson, AppJavascript, AppXml }

SaysText(headers) == Len(headers) > 0 /\ headers[1][2] \in TextualTypes

C20_NullByteIsBinaryUnlessText ==
    [][ /\ \A info \in BodyInfos :
              (RecordBody(info) /\ HasNull(info.body)) =>
                  (RequestBodyRecord.is_binary <=> ~SaysText(info.headers))
        /\ \A info \in BodyResponses :
              (RecordResponseBody(info) /\ HasNull(info.body)) =>
                  (ResponseBodyRecord.is_binary <=> ~SaysText(info.headers))
      ]_vars

\* a body with a null byte was recorded as text/plain: not binary, and the
\* preview is the body with its null byte
C20_Witness ==
    /\ Len(transactions) = 1
    /\ transactions[1].request.body =
           [ content_type |-> Some(TextPlain), size |-> 3,
             preview |-> << "text", << 104, 0, 105 >> >>,
             is_binary |-> FALSE, truncated |-> FALSE ]

(***************************************************************************)
(* C21: for any body that is valid UTF-8 text and not longer than          *)
(* truncate_at bytes, whatever the headers, the BodyRecord's preview       *)
(* equals the body as a string and truncated is false.                     *)
(***************************************************************************)
FitsAsText(info) == IsUtf8(info.body) /\ Len(info.body) <= info.truncate_at

ControlBytes(body) ==
    { i \in 1..Len(body) : body[i] < 32 /\ body[i] \notin { 9, 10, 13 } }

JudgedBinary(info) ==
    /\ Len(info.body) > 0
    /\ ~SaysText(info.headers)
    /\ \/ HasNull(info.body)
       \/ (Cardinality(ControlBytes(info.body)) * 100) \div Len(info.body) > 30

PreviewOfFitting(info) ==
    IF JudgedBinary(info) THEN << "binary data", Len(info.body) >>
    ELSE << "text", info.body >>

C22_TruncatedPreviewBounded ==
    [][ /\ \A info \in BodyInfos :
              (RecordBody(info) /\ Len(info.body) > info.truncate_at) =>
                  /\ RequestBodyRecord.truncated
                  /\ ~RequestBodyRecord.is_binary =>
                         PreviewLen(RequestBodyRecord.preview) <= info.truncate_at
        /\ \A info \in BodyResponses :
              (RecordResponseBody(info) /\ Len(info.body) > info.truncate_at) =>
                  /\ ResponseBodyRecord.truncated
                  /\ ~ResponseBodyRecord.is_binary =>
                         PreviewLen(ResponseBodyRecord.preview) <= info.truncate_at
      ]_vars

(***************************************************************************)
(* C23: start() called while a child handle is stored spawns nothing and   *)
(* returns Ok, and in every reachable state of the supervisor (any         *)
(* sequence of start, stop, is_running, restart, a failing status check    *)
(* included) at most one child process spawned by it is alive.             *)
(***************************************************************************)
C23_StartNoOpOneChild ==
    [][ /\ Cardinality(Running') <= 1
        /\ \A th \in Threads :
              (Start(th) /\ IsSome(child)) =>
                  /\ procs' = procs
                  /\ child' = child
                  /\ sup_ret'[th].result = "ok"
      ]_vars

\* start was called with a handle stored and returned Ok: the handle is the
\* same, its child runs and no other process was spawned
C23_Witness ==
    /\ sup_ret["main"].op = "start"
    /\ sup_ret["main"].result = "ok"
    /\ IsSome(sup_ret["main"].prior)
    /\ child = sup_ret["main"].prior
    /\ procs[Unwrap(child)] = "running"
    /\ Cardinality({ p \in Pids : procs[p] # "unborn" }) = 1

(***************************************************************************)
(* C24: stop() on Unix sends SIGTERM first, sends SIGKILL only after the   *)
(* grace wait and whenever the child has not been seen to exit by then,    *)
(* reaps the child, and returns with the stored handle cleared in every    *)
(* case, so that after stop() returns pid() is None, is_running() is false *)
(* and the child is no longer alive.                                       *)
(***************************************************************************)
\* the step sends sig to p, and nothing else; the step sends nothing
Sends(p, sig) == signals_sent' = Append(signals_sent, << p, sig >>)
SendsNothing == signals_sent' = signals_sent

\* the thread is in stop() and the step is its return
StopReturns(th) ==
    /\ sup_pc[th].op # "idle"
    /\ Head(sup_pc[th].plan) = "stop"
    /\ \/ sup_pc'[th].op = "idle"
       \/ Len(sup_pc'[th].done) > Len(sup_pc[th].done)

\* stop() takes the handle and signals SIGTERM before any SIGKILL
TermFirst(th) ==
    (StopTake(th) /\ IsSome(child)) =>
        /\ Sends(Unwrap(child), "SIGTERM")
        /\ child' = None
        /\ \A i \in 1..Len(signals_sent) :
               signals_sent[i] # << Unwrap(child), "SIGKILL" >>

\* SIGKILL is sent by no step but the check after the grace wait
KillAfterGrace ==
    \A p \in Pids :
        Sends(p, "SIGKILL") =>
            \E th \in Threads :
                /\ sup_pc[th].at = "grace"
                /\ sup_pc[th].taken = Some(p)
                /\ \E i \in 1..Len(signals_sent) :
                       signals_sent[i] = << p, "SIGTERM" >>

\* when stop() returns no handle is stored and the child it took is reaped
StoppedOnReturn(th) ==
    StopReturns(th) =>
        /\ child' = None
        /\ IsSome(sup_pc[th].taken) =>
               procs'[Unwrap(sup_pc[th].taken)] = "reaped"
        /\ IsSome(sup_pc[th].prior) =>
               procs'[Unwrap(sup_pc[th].prior)] # "running"

C24_StopTermThenKill ==
    [][ /\ KillAfterGrace
        /\ \A th \in Threads :
              /\ TermFirst(th)
              /\ StopCheck(th) =>
                     LET p == Unwrap(sup_pc[th].taken)
                     IN  IF procs[p] # "exited" THEN Sends(p, "SIGKILL")
                         ELSE SendsNothing
              /\ StoppedOnReturn(th)
      ]_vars

(***************************************************************************)
(* C24 as amended: stop() on Unix sends SIGTERM first and sends SIGKILL    *)
(* only after the grace wait, exactly when the status check made then      *)
(* reports the child still running; when that check reports an exit, or    *)
(* fails, no SIGKILL is sent.  In every case the child is reaped and stop  *)
(* returns with the stored handle cleared: pid() is None, is_running() is  *)
(* false and the child is no longer alive.                                 *)
(***************************************************************************)
C24_StopKillsIfRunning ==
    [][ /\ KillAfterGrace
        /\ \A th \in Threads :
              /\ TermFirst(th)
              /\ StopCheck(th) =>
                     LET p == Unwrap(sup_pc[th].taken)
                     IN  IF procs[p] = "running" THEN Sends(p, "SIGKILL")
                         ELSE SendsNothing
              /\ StoppedOnReturn(th)
      ]_vars

\* stop() has returned to the signal thread after both signals: the child
\* it found is reaped and no handle is stored
C24_Witness ==
    /\ sup_ret["signal"].op = "stop"
    /\ sup_ret["signal"].prior = Some(1)
    /\ signals_sent = << << 1, "SIGTERM" >>, << 1, "SIGKILL" >> >>
    /\ procs[1] = "reaped"
    /\ child = None
    /\ child_mutex = None

(***************************************************************************)
(* C25: is_running() returns true only when a handle is stored and the     *)
(* child has not exited; when the child has exited or the status check     *)
(* fails it clears the stored handle and returns false, so that pid() is   *)
(* None afterwards; with no handle stored it returns false and changes     *)
(* nothing.                                                                *)
(***************************************************************************)
\* what the call the thread is in returns with this step
Returns(th, result) == sup_ret'[th].result = result /\ sup_pc'[th].op = "idle"

C25_IsRunningTracksChild ==
    [][ \A th \in Threads :
          IsRunning(th) =>
              /\ Returns(th, "true") =>
                     /\ IsSome(child)
                     /\ procs[Unwrap(child)] = "running"
                     /\ child' = child
              /\ (IsSome(child) /\ procs[Unwrap(child)] # "running") =>
                     /\ Returns(th, "false")
                     /\ child' = None
              /\ IsNone(child) =>
                     /\ Returns(th, "false")
                     /\ child' = child
                     /\ procs' = procs
                     /\ signals_sent' = signals_sent
      ]_vars

\* is_running() has returned false for a child that terminated by itself:
\* no signal was sent, the child is reaped and the handle is cleared
C25_Witness ==
    /\ sup_ret["main"].op = "is_running"
    /\ sup_ret["main"].result = "false"
    /\ sup_ret["main"].prior = Some(1)
    /\ procs[1] = "reaped"
    /\ signals_sent = << >>
    /\ child = None
    /\ monitor.observed = 1

(***************************************************************************)
(* C26: restart() performs stop and then start in that order: at the       *)
(* moment start spawns the new child the previous child has been           *)
(* terminated and its handle cleared, and a failure of start is returned   *)
(* to the caller with no child stored.                                     *)
(***************************************************************************)
\* the thread is inside restart(), in the call it makes to the named method
InRestart(th, call) ==
    /\ sup_pc[th].op = "restart"
    /\ Head(sup_pc[th].plan) = call

C26_RestartStopsThenStarts ==
    [][ \A th \in Threads :
          /\ (InRestart(th, "stop") /\ StopTake(th)) => sup_pc[th].done = << >>
          /\ (InRestart(th, "start") /\ Start(th)) =>
                 /\ sup_pc[th].done = << << "stop", "ok" >> >>
                 /\ procs' # procs =>
                        /\ child = None
                        /\ Running = {}
                        /\ IsSome(sup_pc[th].prior) =>
                               procs[Unwrap(sup_pc[th].prior)] = "reaped"
                 /\ Returns(th, "err") => child' = None /\ procs' = procs
      ]_vars

\* restart() has returned Ok: the child that was stored when it was called
\* got both signals and is reaped, and a new child runs under the handle
C26_Witness ==
    /\ sup_ret["main"].op = "restart"
    /\ sup_ret["main"].result = "ok"
    /\ sup_ret["main"].prior = Some(1)
    /\ signals_sent = << << 1, "SIGTERM" >>, << 1, "SIGKILL" >> >>
    /\ procs[1] = "reaped"
    /\ procs[2] = "running"
    /\ child = Some(2)

(***************************************************************************)
(* C27: in the main supervision loop every exit of the child observed by   *)
(* is_running() triggers exactly one restart() call: no observed exit is   *)
(* left without a restart, and no restart is issued without a newly        *)
(* observed exit (also when a restart's start fails).                      *)
(***************************************************************************)
C27_OneRestartPerObservedExit ==
    /\ monitor.restarts <= monitor.observed
    /\ monitor.observed <= monitor.restarts + 1
    /\ monitor.at \in { "check", "restarting" } =>
           monitor.restarts = monitor.observed

(***************************************************************************)
(* C28: on SIGINT or SIGTERM the supervisor is stopped and then the        *)
(* process exits, and under every interleaving of the signal-handling task *)
(* with the main loop's is_running() and restart() no child spawned by the *)
(* supervisor is alive when the process exits.                             *)
(***************************************************************************)
C28_NoChildAliveAtExit ==
    exit_code = Some(0) =>
        /\ monitor.signalled
        /\ sup_ret["signal"].op = "stop"
        /\ sup_ret["signal"].result = "ok"
        /\ Running = {}

(***************************************************************************)
(* C29: parse_upstream_target accepts a string if and only if it contains  *)
(* exactly one ':', the host before it is non-empty and the port after it  *)
(* parses as a 16-bit unsigned integer; on acceptance it returns the input *)
(* string unchanged, otherwise an error.                                   *)
(***************************************************************************)
\* the positions of ':' in a string
Colons(s) == { i \in 1..Len(s) : s[i] = ":" }

\* a decimal numeral of a 16-bit unsigned integer, with or without a "+"
IsU16Text(s) ==
    \E n \in 1..Len(s) :
        LET digits == SubSeq(s, Len(s) - n + 1, Len(s))
        IN  /\ Len(s) - n \in { 0, 1 }
            /\ Len(s) - n = 1 => s[1] = "+"
            /\ \A i \in 1..n : IsDigit(digits[i])
            /\ DecimalValue(digits) < 65536

Acceptable(s) ==
    /\ Cardinality(Colons(s)) = 1
    /\ \E i \in Colons(s) :
           /\ i > 1
           /\ IsU16Text(SubSeq(s, i + 1, Len(s)))

C29_TargetAcceptedIffHostPort ==
    IsSome(upstream_addr) =>
        LET a == Unwrap(upstream_addr)
        IN  IF Acceptable(a.target) THEN a.result = << "Ok", a.target >>
            ELSE a.result[1] = "Err"

\* localhost:3000 was given and returned as it is
C29_Witness ==
    /\ IsSome(upstream_addr)
    /\ Unwrap(upstream_addr).target = Chars_localhost \o << ":" >> \o Chars_3000
    /\ Unwrap(upstream_addr).result =
           << "Ok", Chars_localhost \o << ":" >> \o Chars_3000 >>

(***************************************************************************)
(* C30: when a proxied request's handler has completed and its transaction *)
(* is still in the ring, the transaction has exactly one of response or    *)
(* error set; at no point does any transaction created by the pipeline     *)
(* hold both a response and an error, and each of the two is attached at   *)
(* most once per transaction.                                              *)
(***************************************************************************)
\* a transaction of the ring with both fields set, with exactly one set
HoldsBoth(txn) == IsSome(txn.response) /\ IsSome(txn.error)
HoldsOne(txn) == IsSome(txn.response) # IsSome(txn.error)

\* the step leaves what is attached to the transactions that stay in the
\* ring as it is, and attaches at most one thing to one transaction
AttachesOnce ==
    \A i \in 1..Len(transactions), j \in 1..Len(transactions') :
        transactions[i].request.id = transactions'[j].request.id =>
            /\ IsSome(transactions[i].response) =>
                   transactions'[j].response = transactions[i].response
            /\ IsSome(transactions[i].error) =>
                   transactions'[j].error = transactions[i].error
            /\ transactions'[j] # transactions[i] =>
                   /\ ~Attached(transactions[i])
                   /\ HoldsOne(transactions'[j])

C30_ResponseXorError ==
    [][ /\ AttachesOnce
        /\ \A j \in 1..Len(transactions') : ~HoldsBoth(transactions'[j])
        /\ \A t \in Tasks :
              (pc'[t] = "done" /\ IsSome(request_id'[t])) =>
                  \A j \in 1..Len(transactions') :
                      transactions'[j].request.id = Unwrap(request_id'[t]) =>
                          HoldsOne(transactions'[j])
      ]_vars

\* two handlers have completed and both transactions are in the ring, the
\* older with an error and no response, the newer with a response and no error
C30_Witness ==
    /\ Len(transactions) = 2
    /\ \A t \in Tasks : pc[t] \in { "idle", "done" }
    /\ Cardinality({ t \in Tasks : TxnsOf(t) # {} }) = 2
    /\ IsSome(transactions[1].error) /\ IsNone(transactions[1].response)
    /\ IsSome(transactions[2].response) /\ IsNone(transactions[2].error)

(***************************************************************************)
(* C31: record_request evicts the head of the ring only when the ring      *)
(* holds max_history_size entries already, max_history_size being the      *)
(* value the config has then: after an update has raised it above the      *)
(* capacity the recorder was constructed with, the ring fills up to the    *)
(* new value before anything is evicted.                                   *)
(***************************************************************************)
\* the step is a record_request that drops the head of the ring
EvictsHead ==
    /\ next_id' = next_id + 1
    /\ Len(transactions) > 0
    /\ \A j \in 1..Len(transactions') :
          transactions'[j].request.id # Head(transactions).request.id

C31_EvictsOnlyAtConfiguredSize ==
    [][ EvictsHead => Len(transactions) >= config.max_history_size ]_vars

(***************************************************************************)
(* C32: the path stored in the RequestRecord of a proxied request is the   *)
(* request's path together with its query string, the same path-and-query  *)
(* that is forwarded to the upstream.                                      *)
(***************************************************************************)
\* the query string a sequence of (key, value) pairs was parsed from
RECURSIVE QueryString(_)
QueryString(query) ==
    IF query = << >> THEN << >>
    ELSE << query[1][1], "=", query[1][2] >>
            \o (IF Len(query) > 1 THEN << "&" >> ELSE << >>)
            \o QueryString(Tail(query))

\* Uri::path_and_query().as_str() of a uri with this path and this query
PathAndQuery(path, query) ==
    IF query = << >> THEN path ELSE path \o << "?" >> \o QueryString(query)

C32_RecordedPathIsPathAndQuery ==
    \A t \in Tasks :
        IsSome(upstream_req[t]) =>
            \A i \in TxnsOf(t) :
                LET uri == Unwrap(upstream_req[t]).uri
                IN  transactions[i].request.path = PathAndQuery(uri[3], uri[4])

(***************************************************************************)
(* C33: the interval measured as duration_ms of a ResponseRecord starts    *)
(* after the client's request body has been read and ends when the         *)
(* upstream response head is received: it spans the wait for the upstream  *)
(* and neither the reading of the request body nor the reading of the      *)
(* upstream response body.                                                 *)
(***************************************************************************)
C33_DurationIsUpstreamWait ==
    \A i \in 1..Len(transactions) :
        IsSome(transactions[i].response) =>
            LET measured == Unwrap(transactions[i].response).duration_ms
            IN  /\ "await_upstream" \in Range(measured)
                /\ "read_request_body" \notin Range(measured)
                /\ "read_response_body" \notin Range(measured)

(***************************************************************************)
(* C34: for a non-empty body with no null byte and no content-type that    *)
(* decides the matter, is_binary is true exactly when the number c of      *)
(* bytes below 32 other than tab, LF and CR strictly exceeds 30% of the    *)
(* body size n, that is when 10 * c > 3 * n, for every n and c.            *)
(***************************************************************************)
C34_BinaryIffOver30Percent ==
    [][ \A n \in 1..MaxBodyLen, c \in 0..MaxBodyLen, fill \in FillBytes,
           headers \in HeuristicHeaders :
            (c <= n /\ RecordBody(HeuristicInfo(n, c, fill, headers))) =>
                (RequestBodyRecord.is_binary <=> 10 * c > 3 * n)
      ]_vars

(***************************************************************************)
(* C35: the deadline of an in-flight proxied request is the                *)
(* upstream_timeout read in the config snapshot in which its request was   *)
(* recorded, and later config updates leave it alone, as they leave the    *)
(* request preview; the truncate_at used for its response body is the      *)
(* truncate_body_at in force when the response is recorded.                *)
(***************************************************************************)
\* the step records the request of task t
RecordsRequestOf(t) == IsNone(request_id[t]) /\ IsSome(request_id'[t])

\* the step attaches a response to the transaction of task t, which stays at
\* index i (an eviction moves a later record to a lower index)
AttachesResponseOf(t, i) ==
    /\ i \in TxnsOf(t)
    /\ i <= Len(transactions')
    /\ transactions'[i].request.id = transactions[i].request.id
    /\ IsNone(transactions[i].response)
    /\ IsSome(transactions'[i].response)

\* the BodyRecord of the request of task t, of the response its upstream sent
RequestBodyAt(t, limit) ==
    LET r == Unwrap(req[t])
    IN  analyze_body(r.body[2], HeaderIter(r.headers), limit)
ResponseBodyAt(t, limit) ==
    LET resp == Unwrap(upstream_resp[t])
    IN  analyze_body(resp.body[2], HeaderIter(resp.headers), limit)

\* the request is recorded with the truncate_body_at and the upstream_timeout
\* of one snapshot, and neither the deadline nor the request's BodyRecord
\* changes afterwards
DeadlineFromRequestSnapshot ==
    \A t \in ReconfigTasks :
        /\ RecordsRequestOf(t) =>
              /\ upstream_timeout'[t] = Some(config.upstream_timeout)
              /\ transactions'[Len(transactions')].request.body =
                     RequestBodyAt(t, config.truncate_body_at)
        /\ IsSome(upstream_timeout[t]) => upstream_timeout'[t] = upstream_timeout[t]
        /\ \A i \in TxnsOf(t), j \in 1..Len(transactions') :
              transactions'[j].request.id = transactions[i].request.id =>
                  transactions'[j].request = transactions[i].request

C35_ResponseTruncateAtRecordTime ==
    [][ /\ DeadlineFromRequestSnapshot
        /\ \A t \in ReconfigTasks, i \in 1..Len(transactions) :
              AttachesResponseOf(t, i) =>
                  Unwrap(transactions'[i].response).body =
                      ResponseBodyAt(t, config.truncate_body_at)
      ]_vars

(***************************************************************************)
(* C35 as amended: the truncate_at used for the response body is the       *)
(* truncate_body_at of a second snapshot, which the handler takes once the *)
(* upstream response body is buffered and releases before it calls         *)
(* record_response; an update that is applied after this snapshot does not *)
(* reach the response preview.                                             *)
(***************************************************************************)
\* the step completes the read of the upstream response body of task t
BuffersResponseOf(t) ==
    pc[t] = "read_response_body" /\ pc'[t] = "record_response"

C35_ResponseTruncateFromSecondSnapshot ==
    [][ /\ DeadlineFromRequestSnapshot
        /\ \A t \in ReconfigTasks :
              /\ BuffersResponseOf(t) =>
                    truncate_at'[t] = Some(config.truncate_body_at)
              /\ IsSome(truncate_at[t]) => truncate_at'[t] = truncate_at[t]
              /\ IsSome(truncate_at'[t]) =>
                    (BuffersResponseOf(t) \/ IsSome(truncate_at[t]))
              /\ \A i \in 1..Len(transactions) :
                    AttachesResponseOf(t, i) =>
                        /\ IsSome(truncate_at[t])
                        /\ Unwrap(transactions'[i].response).body =
                               ResponseBodyAt(t, Unwrap(truncate_at[t]))
      ]_vars

\* a request was recorded under the startup config, an update then set
\* upstream_timeout to 1000 ms and truncate_body_at to 2, and the response
\* "Hello" was recorded after it: the deadline is the 500 ms of the startup
\* config, the request preview is whole, the response preview is "He"
C35_Witness ==
    \E t \in ReconfigTasks :
        /\ pc[t] = "done"
        /\ config.upstream_timeout = DurationFromMillis(1000)
        /\ upstream_timeout[t] = Some(DurationFromMillis(DefaultUpstreamTimeoutMs))
        /\ truncate_at[t] = Some(2)
        /\ \E i \in TxnsOf(t) :
              /\ ~transactions[i].request.body.truncated
              /\ IsSome(transactions[i].response)
              /\ Unwrap(transactions[i].response).body.truncated
              /\ Unwrap(transactions[i].response).body.preview =
                     << "text", << 72, 101 >> >>

(***************************************************************************)
(* C36: no handler task is ever at a suspension point (the read of the     *)
(* request body, the upstream dispatch, the read of the response body,     *)
(* the read of an admin body) while it holds a guard of the config lock    *)
(* or of the recorder's ring lock.                                         *)
(***************************************************************************)
SuspensionPoints ==
    { "read_request_body", "upstream", "read_response_body", "admin_read_body" }

\* the task is suspended at one of the awaits of its handler
Suspended(t) ==
    /\ AtOp(t, { "await" })
    /\ Unwrap(InstructionOf(t))[2] \in SuspensionPoints

C36_NoGuardAcrossAwait ==
    \A t \in GuardTasks : Suspended(t) => HeldBy(t) = { }

\* a proxied handler has recorded its request under both guards and awaits
\* the upstream with neither, while an admin handler that has read its body
\* holds the write guard of the config
C36_Witness ==
    \E t \in GuardTasks, u \in GuardTasks :
        /\ Suspended(t)
        /\ Unwrap(InstructionOf(t))[2] = "upstream"
        /\ handler_at[t].k = 6
        /\ HeldBy(t) = { }
        /\ rw_locks["config"].writer = Some(u)
        /\ handler_at[u].program[3] = << "await", "admin_read_body" >>

(***************************************************************************)
(* C39: no interleaving of proxied-request handlers and admin handlers     *)
(* deadlocks on the config lock and the recorder lock.  A proxied handler  *)
(* takes the recorder write lock while it holds the config read lock, and  *)
(* no task waits for the config lock while it holds the recorder lock; the *)
(* handlers in flight are never all blocked, and every lock acquisition    *)
(* eventually succeeds: a task that waits for a guard is eventually past   *)
(* all the guards it takes one after the other.                            *)
(***************************************************************************)
\* the task waits for a guard that cannot be granted now
Blocked(t) ==
    \E l \in LockNames :
        \/ WaitsFor(t, "read", l) /\ ~ReadGranted(l)
        \/ WaitsFor(t, "write", l) /\ ~WriteGranted(l)

\* there are handlers in flight and each of them is blocked
Stuck ==
    /\ \E t \in GuardTasks : IsSome(InstructionOf(t))
    /\ \A t \in GuardTasks : IsSome(InstructionOf(t)) => Blocked(t)

ConfigAfterRing(t) ==
    /\ "ring" \in HeldBy(t)
    /\ WaitsFor(t, "read", "config") \/ WaitsFor(t, "write", "config")

C39_NoLockDeadlock ==
    /\ [](\A t \in GuardTasks : ~ConfigAfterRing(t))
    /\ [](~Stuck)
    /\ \A t \in GuardTasks :
          AtOp(t, { "read", "write" }) ~> ~AtOp(t, { "read", "write" })

\* a proxied handler holds the config read guard and the ring write guard,
\* and an admin handler waits for the write guard of the config
C39_Witness ==
    \E t \in GuardTasks, u \in GuardTasks :
        /\ HeldBy(t) = { "config", "ring" }
        /\ t \in rw_locks["config"].readers
        /\ rw_locks["ring"].writer = Some(t)
        /\ handler_at[t].program[1] = << "await", "read_request_body" >>
        /\ WaitsFor(u, "write", "config")
        /\ Blocked(u)

(***************************************************************************)
(* C37: an admin request to a path that is not under /_proxy/assets/       *)
(* passes the token gate whenever its query string contains a parameter    *)
(* token equal to the stored access token, also when the query carries     *)
(* other parameters or more than one token parameter.                      *)
(***************************************************************************)
\* the query carries a parameter token with the stored access token
CarriesToken(r) ==
    \E i \in 1..Len(r.query) : r.query[i] = << "token", get_access_token(config) >>

C37_ValidTokenPassesGate ==
    \A t \in AdminTasks :
        (/\ IsSome(req[t])
         /\ should_handle_admin_request(Unwrap(req[t]).path)
         /\ ~StartsWith(Unwrap(req[t]).path, AssetsPrefix)
         /\ CarriesToken(Unwrap(req[t]))) =>
            reply[t] # Some(Unauthorized)

(***************************************************************************)
(* C38: an admin request that does not carry the valid token never changes *)
(* the config or the transaction ring, and its response never contains     *)
(* config values, log contents or the access token; for every method and   *)
(* every path under /_proxy, the paths under /_proxy/assets/ that bypass   *)
(* the token gate included.                                                *)
(***************************************************************************)
\* the token the gate finds in the query is not the stored one, or none is found
Unauthenticated(r) == QueryGet(r.query, "token") # Some(get_access_token(config))

\* the body holds nothing of the config, the ring or the token: it is one of
\* the fixed texts of the 401 and the 404s, or an embedded file
OpenBody(body) ==
    \/ /\ body[1] = "text"
       /\ body[2] \in { "Unauthorized - Invalid or missing token", "Not Found",
                        "Asset not found" }
    \/ /\ body[1] = "bytes"
       /\ body[2] \in EmbeddedAssets

\* the step is the first one of the handler of admin request r in task t
Handles(t, r) == IsNone(req[t]) /\ req'[t] = Some(r)

C38_NoTokenNoEffect ==
    [][ \A t \in GateTasks, r \in AllAdminRequests :
            (Handles(t, r) /\ Unauthenticated(r)) =>
                /\ config' = config
                /\ transactions' = transactions
                /\ pc'[t] = "done"
                /\ IsSome(reply'[t])
                /\ OpenBody(Unwrap(reply'[t]).body)
                /\ Unwrap(reply'[t]).headers \in
                       { NoHeaders, serve_static_asset(PathAsset).headers }
      ]_vars

\* the ring holds a transaction, and a GET of an embedded asset that carried
\* no token was let through the gate and answered with the file
C38_Witness ==
    \E t \in GateTasks :
        /\ Len(transactions) = 1
        /\ pc[t] = "done"
        /\ Unwrap(req[t]).method = "GET"
        /\ Unwrap(req[t]).path = PathAsset
        /\ Unwrap(req[t]).query = << >>
        /\ Unwrap(reply[t]).status = 200
        /\ config = StartupConfig(max_size)

(***************************************************************************)
(* C40: all clones of a ProcessManager share one child handle, and the     *)
(* drop of any one clone runs stop() on that shared handle: when the drop  *)
(* returns, no handle is stored and the child is terminated, and until a   *)
(* clone calls start again is_running() on every surviving clone returns   *)
(* false.                                                                  *)
(***************************************************************************)
\* the step is the return of the drop of the clone of thread th
DropReturns(th) == sup_pc[th].op = "drop" /\ sup_pc'[th].op = "idle"

C40_DropStopsSharedChild ==
    [][ /\ \A th \in Threads :
              DropReturns(th) =>
                  /\ child' = None
                  /\ \A p \in Pids : procs'[p] # "running"
                  /\ IsSome(sup_pc[th].taken) =>
                         procs'[Unwrap(sup_pc[th].taken)] = "reaped"
        /\ \A th \in Threads \ Dropped :
              (Dropped # { } /\ IsRunning(th) /\ IsNone(child)) =>
                  Returns(th, "false")
        /\ (IsNone(child) /\ IsSome(child')) =>
               \E th \in Threads \ Dropped : About(th, "start")
      ]_vars

\* the clone of the signal task was dropped while child 1, started by the main
\* thread, was stored: the child got SIGTERM and is reaped, no handle is
\* stored, nothing was started since, and is_running() called on the main
\* thread's manager afterwards returned false
C40_Witness ==
    /\ sup_ret["signal"].op = "drop"
    /\ sup_ret["signal"].prior = Some(1)
    /\ signals_sent = << << 1, "SIGTERM" >> >>
    /\ procs = [ p \in Pids |-> IF p = 1 THEN "reaped" ELSE "unborn" ]
    /\ child = None
    /\ sup_ret["main"].op = "is_running"
    /\ sup_ret["main"].result = "false"
    /\ sup_ret["main"].prior = None
    /\ "main" \notin Dropped

=============================================================================
